---- MODULE Spec2Model ----
(***************************************************************************)
(* Keyset (cursor) pagination and the comment / video write procedures of  *)
(* the video-sharing application: the tRPC routers comments, studio,       *)
(* suggestions and videos over the Postgres tables videos and comments.    *)
(*                                                                         *)
(* Time.  A timestamp column holds a Postgres timestamp (finer than a      *)
(* millisecond); the ORM hands it to JavaScript as a Date (whole           *)
(* milliseconds).  Stored times are counted in ticks, Sub ticks to the     *)
(* millisecond; a Date is a count of milliseconds.                         *)
(*                                                                         *)
(* Schema.  The comment procedures are written for a comments table with   *)
(* a parent_id column; the schema file of the repository is of an earlier  *)
(* revision (no parent_id, one comment per video).  The table is modelled  *)
(* as the procedures use it, and parent_id as a reference to comments.id   *)
(* whose rows go with the comment they reply to.                           *)
(*                                                                         *)
(* The table of comment reactions is not in that schema file either: it is *)
(* modelled as the procedures use it, with the primary key (commentId,     *)
(* userId) their onConflictDoUpdate names, and as a reference to           *)
(* comments.id whose rows go with the comment, like every reference of the *)
(* schema.                                                                 *)
(*                                                                         *)
(* Identifiers.  A uuid is a number; Postgres orders uuids, so `<` on the  *)
(* numbers stands for its order.  gen_random_uuid() picks any identifier   *)
(* that was never used.                                                    *)
(***************************************************************************)
EXTENDS Integers, Sequences, FiniteSets, TLC

\* ------------------------------------------------------------------ bounds
MaxUsers == 2
MaxVideos == 3
MaxComments == 3
MaxCategories == 1
\* ticks per millisecond, and the last tick of the clock
Sub == 2
MaxNow == 2
\* the file keys that UploadThing hands out
MaxFiles == 4

\* ------------------------------------------------------- program constants
MinLimit == 1
MaxLimit == 100
DefaultLimit == 5

Users == 1..MaxUsers
VideoIds == 1..MaxVideos
CommentIds == 1..MaxComments
Categories == 1..MaxCategories
\* SQL NULL / JavaScript null or undefined, for an id or a limit
Null == 0
\* ctx.clerkUserId: no session, a Clerk account without a users row (0), or
\* the Clerk account of user u (u)
NoSession == -1
\* an optional input field that is left out (undefined)
Omitted == -1
ClerkIds == 0..MaxUsers
\* the limits a caller sends: none, and numbers below, inside and above the range
LimitInputs == {Omitted, MinLimit - 1, MinLimit, MinLimit + 1, MaxLimit, MaxLimit + 1}

VARIABLES now, videoTable, commentsTable, resp, trav,
          videoReactionTable, commentReactionTable, videoViewsTable,
          subscriptionTable, videoTableMux, utapi, muxAssets, queryClient

\* The Mux and thumbnail columns of the rows of videoTable, the files that
\* UploadThing stores and the assets that Mux stores.
uploads == <<videoTableMux, utapi, muxAssets>>

\* the tables of reactions, views and subscriptions (sets of rows), the
\* uploads, and the query cache of the browser tab of one viewer
otherTables ==
  <<videoReactionTable, commentReactionTable, videoViewsTable, subscriptionTable,
    uploads, queryClient>>

vars == <<now, videoTable, commentsTable, resp, trav, otherTables>>

\* ------------------------------------------------------------------- rows
NoCursor == [id |-> Null, updatedAt |-> -1]

FreeVideo == [updatedAt |-> 0, st |-> "unused", uploaderId |-> Null,
              categoryId |-> Null, visibility |-> "private"]

FreeComment == [updatedAt |-> 0, st |-> "unused", videoId |-> Null,
                userId |-> Null, parentId |-> Null]

\* A deleted row: nothing of it is left but that its id was used, and for a
\* comment, whether it was a top-level comment.
GoneVideo == [FreeVideo EXCEPT !.st = "deleted"]

GoneComment(row) == [FreeComment EXCEPT !.st = "deleted", !.parentId = row.parentId]

LiveVideos(vt) == {v \in VideoIds : vt[v].st = "live"}

\* The Mux and thumbnail columns of a video row.  Mux names an upload, an
\* asset and a playback id as it likes: the upload made for video row v is
\* upload v, and the asset and the playback id that come of upload v are
\* asset v and playback id v.  DirectAsset is an asset of the same Mux
\* environment that was not made from an upload.
DirectAsset == MaxVideos + 1

AssetIds == VideoIds \cup {DirectAsset}

NoMux == [muxStatus |-> "null", muxUploadId |-> Null, muxAssetId |-> Null,
          muxPlaybackId |-> Null, thumbnailKey |-> Null, previewKey |-> Null,
          muxTrackId |-> Null, muxTrackState |-> "null"]

\* the columns that videos.create writes
Waiting(uploadId) ==
  [NoMux EXCEPT !.muxStatus = "waiting", !.muxUploadId = uploadId]

\* UploadThing: the keys of the stored files, and how many keys were handed out
NoFiles == [files |-> {}, issued |-> 0]

\* utapi.deleteFiles(keys); ok: the request did not fail
DeleteFiles(ut, keys, ok) ==
  IF ok THEN [ut EXCEPT !.files = @ \ keys] ELSE ut

LiveComments(ct) == {c \in CommentIds : ct[c].st = "live"}

\* timestamp column -> Date (mapFromDriverValue) and Date -> timestamp
ToDate(t) == t \div Sub

FromDate(d) == d * Sub

\* new Date(): the clock read by the server process, in whole milliseconds
NewDate == ToDate(now)

\* ----------------------------------------------------- protectedProcedure
\* (a middleware that lets every caller through)
AuthCodeOpen(clerk, rl) == "OK"

\* isAuthed: the code a protected call ends with before its handler runs.
\* rl is the answer of the rate limiter.
AuthCode(clerk, rl) ==
  IF clerk = NoSession THEN "UNAUTHORIZED"
  ELSE IF clerk \notin Users THEN "UNAUTHORIZED"
  ELSE IF ~rl THEN "TOO_MANY_REQUESTS"
  ELSE "OK"

\* the storage isAuthed reads before the handler or the input validation runs:
\* the users row of the session, and the rate limiter's counters once that row
\* is found
AuthAccess(clerk) ==
  IF clerk = NoSession THEN {}
  ELSE IF clerk \notin Users THEN {"users"}
  ELSE {"users", "ratelimit"}

\* (a schema that lets every limit through)
LimitAny(limit) == TRUE

\* z.number().min(1).max(100), with .default(5) where the schema has one
LimitOk(limit) == limit >= MinLimit /\ limit <= MaxLimit

WithDefault(limit) == IF limit = Omitted THEN DefaultLimit ELSE limit

\* ------------------------------------------------------- keyset pagination
\* (a cursor compared by id alone)
CursorPredById(table, id, cursor) == cursor = NoCursor \/ id < cursor.id

\* (a cursor that counts only while its row exists)
CursorPredExisting(table, id, cursor) ==
  \/ cursor = NoCursor
  \/ /\ table[cursor.id].st = "live"
     /\ \/ table[id].updatedAt < FromDate(cursor.updatedAt)
        \/ table[id].updatedAt = FromDate(cursor.updatedAt) /\ id < cursor.id

\* or(lt(updatedAt, cursor.updatedAt),
\*    and(eq(updatedAt, cursor.updatedAt), lt(id, cursor.id)))
CursorPred(table, id, cursor) ==
  \/ cursor = NoCursor
  \/ table[id].updatedAt < FromDate(cursor.updatedAt)
  \/ /\ table[id].updatedAt = FromDate(cursor.updatedAt)
     /\ id < cursor.id

\* row a comes before row b under orderBy(desc(updatedAt), desc(id))
Precedes(table, a, b) ==
  \/ table[a].updatedAt > table[b].updatedAt
  \/ table[a].updatedAt = table[b].updatedAt /\ a > b

RECURSIVE OrderBy(_, _)
OrderBy(table, S) ==
  IF S = {} THEN <<>>
  ELSE LET first == CHOOSE a \in S : \A b \in S \ {a} : Precedes(table, a, b)
       IN <<first>> \o OrderBy(table, S \ {first})

\* .limit(n)
Take(s, n) == IF Len(s) <= n THEN s ELSE SubSeq(s, 1, n)

\* a selected row as JavaScript sees it
Item(table, id) == [id |-> id, updatedAt |-> ToDate(table[id].updatedAt)]

Select(table, S, n) ==
  LET ids == Take(OrderBy(table, S), n)
  IN [i \in 1..Len(ids) |-> Item(table, ids[i])]

\* hasMore, items, lastItem and nextCursor of a getMany handler
HasMore(data, limit) == Len(data) > limit

\* (items that keep the row fetched beyond the limit)
PageItemsWithSentinel(data, limit) == data

PageItems(data, limit) ==
  IF HasMore(data, limit) THEN SubSeq(data, 1, Len(data) - 1) ELSE data

NextCursor(data, limit) ==
  LET items == PageItems(data, limit)
  IN IF HasMore(data, limit)
     THEN [id |-> items[Len(items)].id, updatedAt |-> items[Len(items)].updatedAt]
     ELSE NoCursor

\* ---------------------------------------------------------------- responses
\* What a procedure call comes back with.  code is "OK" or the TRPCError code;
\* a response whose code is not "OK" carries no page and no row.
Request(videoId, parentId, cursor, limit, clerk) ==
  [videoId |-> videoId, parentId |-> parentId, clerk |-> clerk,
   limit |-> limit, cursor |-> cursor]

NoRequest == Request(Null, Null, NoCursor, Omitted, NoSession)

Failure(op, code) ==
  [items |-> <<>>, op |-> op, code |-> code, nextCursor |-> NoCursor,
   totalCount |-> 0]

Page(op, data, limit, totalCount) ==
  [items |-> PageItems(data, limit), op |-> op, code |-> "OK",
   nextCursor |-> NextCursor(data, limit), totalCount |-> totalCount]

\* the part of a response that is kept as the last response seen; value is
\* the object a mutation returns, in a set (empty for an error, and for the
\* calls whose result is kept elsewhere)
ReplyWith(op, code, value) == [op |-> op, code |-> code, value |-> value]

Reply(op, code) == ReplyWith(op, code, {})

\* ------------------------------------------------------- comments.getMany
\* (a filter by video alone)
CommentsFilterAnyParent(ct, req) ==
  {c \in LiveComments(ct) : ct[c].videoId = req.videoId}

\* eq(videoId), parentId ? eq(parentId) : isNull(parentId)
CommentsFilter(ct, req) ==
  {c \in LiveComments(ct) :
     /\ ct[c].videoId = req.videoId
     /\ IF req.parentId # Null THEN ct[c].parentId = req.parentId
                               ELSE ct[c].parentId = Null}

\* the replies CTE: the comments with a parent, counted by parentId
ReplyCount(ct, id) ==
  Cardinality({c \in LiveComments(ct) : ct[c].parentId # Null /\ ct[c].parentId = id})

CommentsGetMany(ct, req) ==
  LET limit == WithDefault(req.limit)
      rows == {c \in CommentsFilter(ct, req) : CursorPred(ct, c, req.cursor)}
  IN IF ~LimitOk(limit) THEN Failure("comments.getMany", "BAD_REQUEST")
     ELSE Page("comments.getMany", Select(ct, rows, limit + 1), limit,
               Cardinality(CommentsFilter(ct, req)))

\* --------------------------------------------------------- studio.getMany
\* (a list of every user's videos)
StudioFilterAll(vt, req) == LiveVideos(vt)

StudioFilter(vt, req) ==
  {v \in LiveVideos(vt) : vt[v].uploaderId = req.clerk}

StudioGetMany(vt, req, rl) ==
  LET rows == {v \in StudioFilter(vt, req) : CursorPred(vt, v, req.cursor)}
  IN IF AuthCode(req.clerk, rl) # "OK"
     THEN Failure("studio.getMany", AuthCode(req.clerk, rl))
     ELSE IF req.limit = Omitted \/ ~LimitOk(req.limit)
     THEN Failure("studio.getMany", "BAD_REQUEST")
     ELSE Page("studio.getMany", Select(vt, rows, req.limit + 1), req.limit, 0)

\* ---------------------------------------------------------- studio.getOne
\* the code the call ends with; on "OK" the row of id is what it returns
StudioGetOneCode(vt, clerk, rl, id) ==
  IF AuthCode(clerk, rl) # "OK" THEN AuthCode(clerk, rl)
  ELSE IF id \in LiveVideos(vt) /\ vt[id].uploaderId = clerk THEN "OK"
  ELSE "NOT_FOUND"

StudioGetOne(clerk, rl, id) ==
  /\ resp' = Reply("studio.getOne", StudioGetOneCode(videoTable, clerk, rl, id))
  /\ UNCHANGED <<now, videoTable, commentsTable, trav, otherTables>>

\* ---------------------------------------------------- suggestions.getMany
\* (a list of every public video)
SuggestionsFilterPublic(vt, req) ==
  {v \in LiveVideos(vt) : vt[v].visibility = "public"}

SuggestionsFilter(vt, req) ==
  {v \in LiveVideos(vt) :
     /\ vt[v].visibility = "public"
     /\ vt[req.videoId].categoryId # Null
          => vt[v].categoryId = vt[req.videoId].categoryId
     /\ v # req.videoId}

SuggestionsGetMany(vt, req) ==
  LET rows == {v \in SuggestionsFilter(vt, req) : CursorPred(vt, v, req.cursor)}
  IN IF req.limit = Omitted \/ ~LimitOk(req.limit)
     THEN Failure("suggestions.getMany", "BAD_REQUEST")
     ELSE IF req.videoId \notin LiveVideos(vt)
     THEN Failure("suggestions.getMany", "NOT_FOUND")
     ELSE Page("suggestions.getMany", Select(vt, rows, req.limit + 1),
               req.limit, 0)

\* ------------------------------------------------------ the client's list
GetMany(proc, vt, ct, req, rl) ==
  IF proc = "comments" THEN CommentsGetMany(ct, req)
  ELSE IF proc = "studio" THEN StudioGetMany(vt, req, rl)
  ELSE SuggestionsGetMany(vt, req)

Filter(proc, vt, ct, req) ==
  IF proc = "comments" THEN CommentsFilter(ct, req)
  ELSE IF proc = "studio" THEN StudioFilter(vt, req)
  ELSE IF req.videoId \in LiveVideos(vt) THEN SuggestionsFilter(vt, req)
  ELSE {}

Table(proc, vt, ct) == IF proc = "comments" THEN ct ELSE vt

\* the storage a getMany call reads: the middleware of the procedure first,
\* then the input validation, then the queries of the handler
GetManyAccess(proc, req, rl) ==
  IF proc = "comments"
  THEN IF LimitOk(WithDefault(req.limit)) THEN {"users", "comments"} ELSE {}
  ELSE IF proc = "studio"
  THEN AuthAccess(req.clerk) \cup
         IF AuthCode(req.clerk, rl) = "OK" /\ LimitOk(req.limit)
         THEN {"videos"} ELSE {}
  ELSE IF LimitOk(req.limit) THEN {"videos"} ELSE {}

Ids(s) == [i \in 1..Len(s) |-> s[i].id]

\* One infinite query (useInfiniteQuery) and what it has accumulated:
\* st is "idle" (not mounted), "more" (hasNextPage), "done" (nextCursor null)
\* or "failed" (the last fetch threw); req holds the query input, its cursor
\* being the page parameter of the next fetch; items are the ids of all pages
\* so far.  The remaining fields are history: issued holds every cursor handed
\* out, static says that no row was written since the first page, and for a
\* list of videos kept holds the rows that matched the filter at every moment
\* since the first page and same the rows not written since then; accessed is
\* the storage that the last fetch read and first the cursor of the first
\* fetch (none, unless a caller sends one of its own).
\* The component that shows the list and triggers its next pages: mode is
\* "none" (not mounted), "auto" or "manual" (InfiniteScroll without and with
\* isManual) or "replies" (CommentReplies); isIntersecting is the state of
\* useIntersectionObserver, isFetchingNextPage that of the query, inflight the
\* number of fetchNextPage requests sent and not yet answered.  Two more
\* history fields tell what the component's last step did: by is who called
\* fetchNextPage in it ("none", "click" or "effect"), settled how a fetch
\* ended in it ("none", "ok" or "error").
NoList ==
  [st |-> "idle", first |-> NoCursor, items |-> <<>>, req |-> NoRequest,
   proc |-> "comments", issued |-> {}, static |-> TRUE, kept |-> {},
   same |-> {}, accessed |-> {}, mode |-> "none", isIntersecting |-> FALSE,
   isFetchingNextPage |-> FALSE, inflight |-> 0, by |-> "none",
   settled |-> "none"]

\* the query's first fetch, and fetchNextPage with getNextPageParam =
\* lastPage.nextCursor
Accumulate(list, r) ==
  IF r.code # "OK" THEN [list EXCEPT !.st = "failed"]
  ELSE [list EXCEPT !.st = IF r.nextCursor = NoCursor THEN "done" ELSE "more",
                    !.req.cursor = r.nextCursor,
                    !.items = @ \o Ids(r.items),
                    !.issued = IF r.nextCursor = NoCursor THEN @
                               ELSE @ \cup {r.nextCursor}]

\* what a write to the tables leaves of the history fields
Observe(list, vt, ct) ==
  IF list.st = "idle" THEN list
  ELSE IF list.proc = "comments"
  THEN [list EXCEPT !.static = @ /\ commentsTable = ct]
  ELSE [list EXCEPT !.static = @ /\ videoTable = vt,
                    !.kept = @ \cap Filter(list.proc, vt, ct, list.req),
                    !.same = {i \in @ : vt[i] = videoTable[i]}]
\* ------------------------------------------------------------------- clock
Tick ==
  /\ now < MaxNow
  /\ now' = now + 1
  /\ UNCHANGED <<videoTable, commentsTable, resp, trav, otherTables>>

\* ------------------------------------------------------------ foreign keys
\* comments.video_id references videos.id, on delete cascade; a reply goes
\* with its parent comment.
RECURSIVE Cascade(_, _)
Cascade(ct, dead) ==
  LET more == {c \in LiveComments(ct) \ dead : ct[c].parentId \in dead}
  IN IF more = {} THEN dead ELSE Cascade(ct, dead \cup more)

DeleteComments(ct, dead) ==
  [c \in CommentIds |-> IF c \in Cascade(ct, dead) THEN GoneComment(ct[c]) ELSE ct[c]]

CommentsOfVideo(ct, v) == {c \in LiveComments(ct) : ct[c].videoId = v}

\* the reactions to a comment go with the comment
ReactionsLeft(table, ct) == {r \in table : r.id \in LiveComments(ct)}

\* ------------------------------------------------------------ videos.create
VideosCreate(clerk, rl, muxOk, id) ==
  /\ videoTable[id].st = "unused"
  /\ IF AuthCode(clerk, rl) # "OK"
     THEN /\ resp' = Reply("videos.create", AuthCode(clerk, rl))
          /\ UNCHANGED <<videoTable, trav, videoTableMux>>
     ELSE IF ~muxOk
     THEN /\ resp' = Reply("videos.create", "INTERNAL_SERVER_ERROR")
          /\ UNCHANGED <<videoTable, trav, videoTableMux>>
     ELSE /\ videoTable' = [videoTable EXCEPT ![id] =
               [updatedAt |-> now, st |-> "live", uploaderId |-> clerk,
                categoryId |-> Null, visibility |-> "private"]]
          /\ videoTableMux' = [videoTableMux EXCEPT ![id] = Waiting(id)]
          /\ resp' = Reply("videos.create", "OK")
          /\ trav' = Observe(trav, videoTable', commentsTable)
  /\ UNCHANGED <<now, commentsTable, videoReactionTable, commentReactionTable,
                 videoViewsTable, subscriptionTable, utapi, muxAssets,
                 queryClient>>

\* --------------------------------------------------------- video ownership
\* (a where clause that names the row only)
WhereIdOnly(id, userId) == videoTable[id].st = "live"

\* and(eq(videoTable.id, id), eq(videoTable.uploaderId, userId)): the row is
\* there and the caller uploaded it
WhereOwner(id, userId) ==
  videoTable[id].st = "live" /\ videoTable[id].uploaderId = userId

\* ------------------------------------------------------------ videos.update
\* cat and vis are the input's categoryId and visibility; Omitted and "keep" are
\* a field the input leaves out (undefined), which set() skips.
VideosUpdate(clerk, rl, id, cat, vis) ==
  LET mine == id # Null /\ WhereOwner(id, clerk)
  IN /\ IF AuthCode(clerk, rl) # "OK"
        THEN /\ resp' = Reply("videos.update", AuthCode(clerk, rl))
             /\ UNCHANGED <<videoTable, trav>>
        ELSE IF id = Null
        THEN /\ resp' = Reply("videos.update", "BAD_REQUEST")
             /\ UNCHANGED <<videoTable, trav>>
        ELSE IF ~mine
        THEN /\ resp' = Reply("videos.update", "NOT_FOUND")
             /\ UNCHANGED <<videoTable, trav>>
        ELSE /\ videoTable' = [videoTable EXCEPT ![id] =
                  [@ EXCEPT !.categoryId = IF cat = Omitted THEN @ ELSE cat,
                            !.visibility = IF vis = "keep" THEN @ ELSE vis,
                            !.updatedAt = FromDate(NewDate)]]
             /\ resp' = Reply("videos.update", "OK")
             /\ trav' = Observe(trav, videoTable', commentsTable)
     /\ UNCHANGED <<now, commentsTable, otherTables>>

\* ------------------------------------------------------------ videos.remove
\* The files and the asset are deleted before the row, and a failure of
\* either request (filesOk, assetOk) is logged and passed over.
VideosRemove(clerk, rl, id) ==
  LET mine == WhereOwner(id, clerk)
      existVideo == videoTableMux[id]
      filesToDelete == {existVideo.thumbnailKey, existVideo.previewKey} \ {Null}
  IN /\ IF AuthCode(clerk, rl) # "OK"
        THEN /\ resp' = Reply("videos.remove", AuthCode(clerk, rl))
             /\ UNCHANGED <<videoTable, commentsTable, trav, videoReactionTable,
                            commentReactionTable, videoViewsTable, uploads>>
        ELSE IF ~mine
        THEN /\ resp' = Reply("videos.remove", "NOT_FOUND")
             /\ UNCHANGED <<videoTable, commentsTable, trav, videoReactionTable,
                            commentReactionTable, videoViewsTable, uploads>>
        ELSE /\ \E filesOk, assetOk \in BOOLEAN :
                  /\ utapi' = DeleteFiles(utapi, filesToDelete, filesOk)
                  /\ muxAssets' =
                       IF existVideo.muxAssetId # Null /\ assetOk
                       THEN [muxAssets EXCEPT ![existVideo.muxAssetId] = "deleted"]
                       ELSE muxAssets
             /\ videoTableMux' = [videoTableMux EXCEPT ![id] = NoMux]
             /\ videoTable' = [videoTable EXCEPT ![id] = GoneVideo]
             /\ commentsTable' =
                  DeleteComments(commentsTable, CommentsOfVideo(commentsTable, id))
             /\ videoReactionTable' = {r \in videoReactionTable : r.id # id}
             /\ videoViewsTable' = {r \in videoViewsTable : r.videoId # id}
             /\ commentReactionTable' =
                  ReactionsLeft(commentReactionTable, commentsTable')
             /\ resp' = Reply("videos.remove", "OK")
             /\ trav' = Observe(trav, videoTable', commentsTable')
     /\ UNCHANGED <<now, subscriptionTable, queryClient>>

\* ---------------------------------------------------------- comments.create
\* insert(commentsTable): the row, or the foreign-key violation the database
\* answers with when the video or the parent comment is not there.
InsertComment(clerk, videoId, parentId, id) ==
  IF \/ videoId \notin LiveVideos(videoTable)
     \/ parentId # Null /\ parentId \notin LiveComments(commentsTable)
  THEN /\ resp' = Reply("comments.create", "INTERNAL_SERVER_ERROR")
       /\ UNCHANGED <<commentsTable, trav>>
  ELSE /\ commentsTable' = [commentsTable EXCEPT ![id] =
            [updatedAt |-> now, st |-> "live", videoId |-> videoId,
             userId |-> clerk, parentId |-> parentId]]
       /\ resp' = Reply("comments.create", "OK")
       /\ trav' = Observe(trav, videoTable, commentsTable')

\* The handler awaits its parent lookup and then its insert, and other calls
\* run in between.  A comment row is never changed, only deleted, so the one
\* lookup result that the insert can find out of date is a parent that was
\* removed meanwhile: stale says that the lookup ran while the parent row was
\* still there.
Lookup(parentId, stale) ==
  /\ parentId # Null
  /\ IF stale THEN commentsTable[parentId].st = "deleted"
              ELSE commentsTable[parentId].st = "live"

\* (a handler without the check)
ParentMissingNever(existingComment, parentId) == FALSE

\* if (!existingComment && parentId)
ParentMissing(existingComment, parentId) == ~existingComment /\ parentId # Null

\* (a handler without the check)
ParentIsReplyNever(existingComment, parentId) == FALSE

\* if (existingComment?.parentId && parentId)
ParentIsReply(existingComment, parentId) ==
  existingComment /\ parentId # Null /\ commentsTable[parentId].parentId # Null

CommentsCreate(clerk, rl, videoId, parentId, stale, id) ==
  LET existingComment == Lookup(parentId, stale)
  IN /\ commentsTable[id].st = "unused"
     /\ stale => parentId # Null /\ commentsTable[parentId].st = "deleted"
     /\ IF AuthCode(clerk, rl) # "OK"
        THEN /\ resp' = Reply("comments.create", AuthCode(clerk, rl))
             /\ UNCHANGED <<commentsTable, trav>>
        ELSE IF ParentMissing(existingComment, parentId)
        THEN /\ resp' = Reply("comments.create", "NOT_FOUND")
             /\ UNCHANGED <<commentsTable, trav>>
        ELSE IF ParentIsReply(existingComment, parentId)
        THEN /\ resp' = Reply("comments.create", "BAD_REQUEST")
             /\ UNCHANGED <<commentsTable, trav>>
        ELSE InsertComment(clerk, videoId, parentId, id)
     /\ UNCHANGED <<now, videoTable, otherTables>>

\* ---------------------------------------------------------- comments.remove
CommentsRemove(clerk, rl, id) ==
  LET mine == commentsTable[id].st = "live" /\ commentsTable[id].userId = clerk
  IN /\ IF AuthCode(clerk, rl) # "OK"
        THEN /\ resp' = Reply("comments.remove", AuthCode(clerk, rl))
             /\ UNCHANGED <<commentsTable, trav, commentReactionTable>>
        ELSE IF ~mine
        THEN /\ resp' = Reply("comments.remove", "NOT_FOUND")
             /\ UNCHANGED <<commentsTable, trav, commentReactionTable>>
        ELSE /\ commentsTable' = DeleteComments(commentsTable, {id})
             /\ commentReactionTable' =
                  ReactionsLeft(commentReactionTable, commentsTable')
             /\ resp' = Reply("comments.remove", "OK")
             /\ trav' = Observe(trav, videoTable, commentsTable')
     /\ UNCHANGED <<now, videoTable, videoReactionTable, videoViewsTable,
                    subscriptionTable, uploads, queryClient>>

\* ---------------------------------------------------------------- reactions
\* A reaction row is [id, userId, type]: id is the videoId of a row of
\* video_reactions and the commentId of a row of the comment reactions; the
\* primary key is (id, userId).
ReactionsOf(table, userId, id) ==
  {r \in table : r.id = id /\ r.userId = userId}

\* (an insert that the primary key does not stop)
InsertAnyway(table, row) == table \cup {row}

\* insert(table).values(row).onConflictDoUpdate({target: [id, userId],
\*                                               set: {type: row.type}})
OnConflictDoUpdate(table, row) ==
  (table \ ReactionsOf(table, row.userId, row.id)) \cup {row}

\* like and dislike, of a video and of a comment, are one handler but for the
\* table and the type: the select of the caller's row of that type, then the
\* delete of the caller's row for the target or the insert.  The handler
\* awaits its select and then its write, and other calls run in between:
\* stale says that the select ran before another call stored the caller's row
\* for the target, so that it found none.  exists says that the target is
\* stored (the insert violates the foreign key otherwise).
ReactCall(table, op, type, clerk, rl, id, stale, exists) ==
  LET mine == ReactionsOf(table, clerk, id)
      existingReaction == {r \in mine : ~stale /\ r.type = type}
      row == [id |-> id, userId |-> clerk, type |-> type]
  IN IF AuthCode(clerk, rl) # "OK"
     THEN [table |-> table, resp |-> Reply(op, AuthCode(clerk, rl))]
     ELSE IF existingReaction # {}
     THEN [table |-> table \ mine, resp |-> ReplyWith(op, "OK", mine)]
     ELSE IF ~exists
     THEN [table |-> table, resp |-> Reply(op, "INTERNAL_SERVER_ERROR")]
     ELSE [table |-> OnConflictDoUpdate(table, row),
           resp |-> ReplyWith(op, "OK", {row})]

VideosReact(op, type, clerk, rl, videoId, stale) ==
  LET r == ReactCall(videoReactionTable, op, type, clerk, rl, videoId, stale,
                     videoId \in LiveVideos(videoTable))
  IN /\ stale => ReactionsOf(videoReactionTable, clerk, videoId) # {}
     /\ videoReactionTable' = r.table
     /\ resp' = r.resp
     /\ UNCHANGED <<now, videoTable, commentsTable, trav, commentReactionTable,
                    videoViewsTable, subscriptionTable, uploads, queryClient>>

VideosLike(clerk, rl, videoId, stale) ==
  VideosReact("videos.like", "like", clerk, rl, videoId, stale)

VideosDislike(clerk, rl, videoId, stale) ==
  VideosReact("videos.dislike", "dislike", clerk, rl, videoId, stale)

\* the handler, whoever waits for its answer
CommentsReactCall(op, type, clerk, rl, commentId, stale) ==
  LET r == ReactCall(commentReactionTable, op, type, clerk, rl, commentId, stale,
                     commentId \in LiveComments(commentsTable))
  IN /\ stale => ReactionsOf(commentReactionTable, clerk, commentId) # {}
     /\ commentReactionTable' = r.table
     /\ resp' = r.resp
     /\ UNCHANGED <<now, videoTable, commentsTable, trav, videoReactionTable,
                    videoViewsTable, subscriptionTable, uploads>>

\* a call of another client than the viewer's tab
CommentsReact(op, type, clerk, rl, commentId, stale) ==
  /\ CommentsReactCall(op, type, clerk, rl, commentId, stale)
  /\ UNCHANGED queryClient

CommentsLike(clerk, rl, commentId, stale) ==
  CommentsReact("comments.like", "like", clerk, rl, commentId, stale)

CommentsDislike(clerk, rl, commentId, stale) ==
  CommentsReact("comments.dislike", "dislike", clerk, rl, commentId, stale)

\* -------------------------------------------------------- videos.createView
\* A view row is [videoId, viewerId, createdAt]; the primary key is
\* (videoId, viewerId).  stale says
\* that the select ran before another call stored the caller's view of the
\* video; the insert that follows then violates the primary key.
ViewsOf(table, viewerId, videoId) ==
  {r \in table : r.videoId = videoId /\ r.viewerId = viewerId}

VideosCreateView(clerk, rl, videoId, stale) ==
  LET mine == ViewsOf(videoViewsTable, clerk, videoId)
      existingVideoView == IF stale THEN {} ELSE mine
      row == [videoId |-> videoId, viewerId |-> clerk, createdAt |-> now]
  IN /\ stale => mine # {}
     /\ IF AuthCode(clerk, rl) # "OK"
        THEN /\ resp' = Reply("videos.createView", AuthCode(clerk, rl))
             /\ UNCHANGED videoViewsTable
        ELSE IF existingVideoView # {}
        THEN /\ resp' = ReplyWith("videos.createView", "OK", existingVideoView)
             /\ UNCHANGED videoViewsTable
        ELSE IF videoId \notin LiveVideos(videoTable) \/ mine # {}
        THEN /\ resp' = Reply("videos.createView", "INTERNAL_SERVER_ERROR")
             /\ UNCHANGED videoViewsTable
        ELSE /\ videoViewsTable' = videoViewsTable \cup {row}
             /\ resp' = ReplyWith("videos.createView", "OK", {row})
     /\ UNCHANGED <<now, videoTable, commentsTable, trav, videoReactionTable,
                    commentReactionTable, subscriptionTable, uploads, queryClient>>

\* ------------------------------------------------------ subscriptions.toggle
\* A subscription row is [channelId, subscriberId, createdAt]; the primary key
\* is (channelId, subscriberId).
SubscriptionsOf(table, subscriberId, channelId) ==
  {r \in table : r.channelId = channelId /\ r.subscriberId = subscriberId}

\* (a handler without the check)
SelfSubscriptionNever(subscriberId, channelId) == FALSE

\* if (subscriberId === channelId)
SelfSubscription(subscriberId, channelId) == subscriberId = channelId

\* the value the mutation returns
Subscribed(b) == {[subscribed |-> b]}

\* stale says that the select ran before another call stored the caller's
\* subscription to the channel; channelId 0 is the uuid of no user.
SubscriptionsToggle(clerk, rl, channelId, stale) ==
  LET mine == SubscriptionsOf(subscriptionTable, clerk, channelId)
      existingSubscription == IF stale THEN {} ELSE mine
      row == [channelId |-> channelId, subscriberId |-> clerk, createdAt |-> now]
  IN /\ stale => mine # {}
     /\ IF AuthCode(clerk, rl) # "OK"
        THEN /\ resp' = Reply("subscriptions.toggle", AuthCode(clerk, rl))
             /\ UNCHANGED subscriptionTable
        ELSE IF SelfSubscription(clerk, channelId)
        THEN /\ resp' = Reply("subscriptions.toggle", "BAD_REQUEST")
             /\ UNCHANGED subscriptionTable
        ELSE IF existingSubscription # {}
        THEN /\ subscriptionTable' = subscriptionTable \ mine
             /\ resp' = ReplyWith("subscriptions.toggle", "OK", Subscribed(FALSE))
        ELSE IF channelId \notin Users \/ mine # {}
        THEN /\ resp' = Reply("subscriptions.toggle", "INTERNAL_SERVER_ERROR")
             /\ UNCHANGED subscriptionTable
        ELSE /\ subscriptionTable' = subscriptionTable \cup {row}
             /\ resp' = ReplyWith("subscriptions.toggle", "OK", Subscribed(TRUE))
     /\ UNCHANGED <<now, videoTable, commentsTable, trav, videoReactionTable,
                    commentReactionTable, videoViewsTable, uploads, queryClient>>

\* --------------------------------------------------- videos.restoreThumbnail
\* utapi.uploadFilesFromUrl(url): the stored file gets the next key.
UploadFile(ut) ==
  [files |-> ut.files \cup {ut.issued + 1}, issued |-> ut.issued + 1]

\* deleteOk and uploadOk: the request to UploadThing did not fail (a failed
\* deleteFiles is logged and passed over; a failed upload returns no data).
VideosRestoreThumbnail(clerk, rl, videoId, deleteOk, uploadOk) ==
  LET mine == WhereOwner(videoId, clerk)
      video == videoTableMux[videoId]
      deleted == IF video.thumbnailKey # Null
                 THEN DeleteFiles(utapi, {video.thumbnailKey}, deleteOk)
                 ELSE utapi
      uploaded == UploadFile(deleted)
  IN /\ IF AuthCode(clerk, rl) # "OK"
        THEN /\ resp' = Reply("videos.restoreThumbnail", AuthCode(clerk, rl))
             /\ UNCHANGED <<videoTableMux, utapi>>
        ELSE IF ~mine
        THEN /\ resp' = Reply("videos.restoreThumbnail", "NOT_FOUND")
             /\ UNCHANGED <<videoTableMux, utapi>>
        ELSE IF video.muxPlaybackId = Null
        THEN /\ resp' = Reply("videos.restoreThumbnail", "BAD_REQUEST")
             /\ utapi' = deleted
             /\ UNCHANGED videoTableMux
        ELSE IF ~uploadOk
        THEN /\ resp' = Reply("videos.restoreThumbnail", "INTERNAL_SERVER_ERROR")
             /\ utapi' = deleted
             /\ UNCHANGED videoTableMux
        ELSE /\ utapi.issued < MaxFiles
             /\ utapi' = uploaded
             /\ videoTableMux' = [videoTableMux EXCEPT
                  ![videoId].thumbnailKey = uploaded.issued]
             /\ resp' = Reply("videos.restoreThumbnail", "OK")
     /\ UNCHANGED <<now, videoTable, commentsTable, trav, videoReactionTable,
                    commentReactionTable, videoViewsTable, subscriptionTable,
                    muxAssets, queryClient>>

\* ------------------------------------------------------------------- Mux
\* The user sends the file to the upload URL that videos.create returned, or
\* an asset is made in the Mux dashboard: Mux stores the asset.
MuxStoreAsset(a) ==
  /\ muxAssets[a] = "none"
  /\ a \in VideoIds => videoTableMux[a].muxUploadId = a
  /\ muxAssets' = [muxAssets EXCEPT ![a] = "stored"]
  /\ UNCHANGED <<now, videoTable, commentsTable, resp, trav, videoReactionTable,
                 commentReactionTable, videoViewsTable, subscriptionTable,
                 videoTableMux, utapi, queryClient>>

\* an asset is deleted in the Mux dashboard
MuxDeleteAsset(a) ==
  /\ muxAssets[a] = "stored"
  /\ muxAssets' = [muxAssets EXCEPT ![a] = "deleted"]
  /\ UNCHANGED <<now, videoTable, commentsTable, resp, trav, videoReactionTable,
                 commentReactionTable, videoViewsTable, subscriptionTable,
                 videoTableMux, utapi, queryClient>>

\* ----------------------------------------------------------- Mux webhook
\* data.status of an asset, and the event types
MuxStatuses == {"preparing", "ready", "errored"}

EventTypes == {"video.asset.created", "video.asset.ready", "video.asset.errored",
               "video.asset.deleted", "video.asset.track.ready", "other"}

\* The payload of a request.  id is data.id (the asset, or the track of a
\* track event); upload_id and asset_id are Null when the payload lacks them;
\* playback_ids is "absent", "empty" ([]) or "one" (one playback id, that of
\* the asset).
Payload(type, status, id, upload_id, asset_id, playback_ids) ==
  [type |-> type, status |-> status, id |-> id, upload_id |-> upload_id,
   asset_id |-> asset_id, playback_ids |-> playback_ids]

\* the upload an asset came of
UploadOf(a) == IF a \in VideoIds THEN a ELSE Null

\* the tracks of an asset
TrackIds == {1}

\* What Mux sends: an event of an asset it stores or stored, with the
\* asset's own upload, or an event of a track; an asset event carries no
\* asset_id, a track event no upload_id.
FromMux(payload) ==
  IF payload.type = "video.asset.track.ready"
  THEN /\ payload.id \in TrackIds
       /\ payload.upload_id = Null
       /\ payload.asset_id # Null => muxAssets[payload.asset_id] # "none"
  ELSE /\ muxAssets[payload.id] # "none"
       /\ payload.type = "video.asset.deleted" => muxAssets[payload.id] = "deleted"
       /\ payload.upload_id = UploadOf(payload.id)
       /\ payload.asset_id = Null

\* the rows an update or delete of the handler matches
WhereUploadId(upload_id) ==
  {v \in LiveVideos(videoTable) : videoTableMux[v].muxUploadId = upload_id}

WhereAssetId(asset_id) ==
  {v \in LiveVideos(videoTable) : videoTableMux[v].muxAssetId = asset_id}

\* const playbackId = data.playback_ids?.[0].id
PlaybackId(payload) ==
  IF payload.playback_ids = "one" THEN payload.id ELSE Null

\* The signature check: the Response status the handler returns before it
\* reads the event, "thrown" when verifySignature throws, "verified"
\* otherwise.
Verified(secret, signature) ==
  IF ~secret THEN "500"
  ELSE IF signature = "none" THEN "401"
  ELSE IF signature # "good" THEN "thrown"
  ELSE "verified"

\* (a handler that keeps a status once it is ready or errored)
SetStatusForward(old, status) ==
  IF old \in {"ready", "errored"} THEN old ELSE status

\* .set({ muxStatus: data.status })
SetStatus(old, status) == status

\* the outcome of the handler for a verified request: the status of the
\* Response ("thrown" for an exception), and the columns and files after it
Unchanged(code) == [code |-> code, mux |-> videoTableMux, ut |-> utapi, dead |-> {}]

Dispatch(payload, thumbOk, previewOk) ==
  LET rows == WhereUploadId(payload.upload_id)
      first == IF thumbOk THEN UploadFile(utapi) ELSE utapi
      second == IF previewOk THEN UploadFile(first) ELSE first
  IN CASE payload.type = "video.asset.created" ->
            IF payload.upload_id = Null THEN Unchanged("400")
            ELSE [Unchanged("200") EXCEPT !.mux =
                    [v \in VideoIds |->
                       IF v \in rows
                       THEN [videoTableMux[v] EXCEPT
                               !.muxAssetId = payload.id,
                               !.muxStatus = SetStatus(@, payload.status)]
                       ELSE videoTableMux[v]]]
       [] payload.type = "video.asset.ready" ->
            IF payload.playback_ids = "empty" THEN Unchanged("thrown")
            ELSE IF payload.upload_id = Null THEN Unchanged("400")
            ELSE IF PlaybackId(payload) = Null THEN Unchanged("400")
            ELSE IF ~thumbOk \/ ~previewOk
            THEN [Unchanged("500") EXCEPT !.ut = second]
            ELSE [Unchanged("200") EXCEPT
                    !.ut = second,
                    !.mux =
                      [v \in VideoIds |->
                         IF v \in rows
                         THEN [videoTableMux[v] EXCEPT
                                 !.muxStatus = SetStatus(@, payload.status),
                                 !.muxAssetId = payload.id,
                                 !.muxPlaybackId = PlaybackId(payload),
                                 !.thumbnailKey = first.issued,
                                 !.previewKey = second.issued]
                         ELSE videoTableMux[v]]]
       [] payload.type = "video.asset.errored" ->
            IF payload.upload_id = Null THEN Unchanged("400")
            ELSE [Unchanged("200") EXCEPT !.mux =
                    [v \in VideoIds |->
                       IF v \in rows
                       THEN [videoTableMux[v] EXCEPT
                               !.muxStatus = SetStatus(@, payload.status)]
                       ELSE videoTableMux[v]]]
       [] payload.type = "video.asset.deleted" ->
            IF payload.upload_id = Null THEN Unchanged("400")
            ELSE [Unchanged("200") EXCEPT
                    !.dead = rows,
                    !.mux = [v \in VideoIds |->
                               IF v \in rows THEN NoMux ELSE videoTableMux[v]]]
       [] payload.type = "video.asset.track.ready" ->
            IF payload.asset_id = Null THEN Unchanged("400")
            ELSE [Unchanged("200") EXCEPT !.mux =
                    [v \in VideoIds |->
                       IF v \in WhereAssetId(payload.asset_id)
                       THEN [videoTableMux[v] EXCEPT
                               !.muxTrackId = payload.id,
                               !.muxTrackState = payload.status]
                       ELSE videoTableMux[v]]]
       [] OTHER -> Unchanged("200")

\* POST: secret says whether the signing secret is configured, signature is
\* the mux-signature header ("none", "bad" or "good"); thumbOk and previewOk:
\* the upload of the file returned data.
MuxWebhook(secret, signature, payload, thumbOk, previewOk) ==
  LET r == IF Verified(secret, signature) = "verified"
           THEN Dispatch(payload, thumbOk, previewOk)
           ELSE Unchanged(Verified(secret, signature))
  IN /\ signature = "good" => FromMux(payload)
     /\ r.ut.issued <= MaxFiles
     /\ resp' = Reply("webhook", r.code)
     /\ videoTableMux' = r.mux
     /\ utapi' = r.ut
     /\ videoTable' = [v \in VideoIds |->
          IF v \in r.dead THEN GoneVideo ELSE videoTable[v]]
     /\ commentsTable' =
          DeleteComments(commentsTable,
                         {c \in LiveComments(commentsTable) :
                            commentsTable[c].videoId \in r.dead})
     /\ videoReactionTable' = {x \in videoReactionTable : x.id \notin r.dead}
     /\ videoViewsTable' = {x \in videoViewsTable : x.videoId \notin r.dead}
     /\ commentReactionTable' = ReactionsLeft(commentReactionTable, commentsTable')
     /\ trav' = Observe(trav, videoTable', commentsTable')
     /\ UNCHANGED <<now, subscriptionTable, muxAssets, queryClient>>

\* ------------------------------------------------- CommentItem like / dislike
\* The query cache of the tab of one viewer holds the data of two queries of
\* comments.getMany: { videoId, limit: 5 }, the comments of the video, and
\* { videoId, parentId, limit: 5 }, the replies to its first comment.  Fewer
\* than five comments are stored, so each is one page; an item is the
\* viewerReaction, likeCount and dislikeCount of a comment of the page.
NoItem == [viewerReaction |-> "absent", likeCount |-> 0, dislikeCount |-> 0]

NoData == [loaded |-> FALSE, items |-> [c \in CommentIds |-> NoItem]]

\* the context of the mutation of a CommentItem: what onMutate returned
\* (previousData), and for the record the item before and after onMutate and
\* the code of the answer
NoMutation == [st |-> "idle", type |-> "like", previousData |-> NoData,
               before |-> NoItem, applied |-> NoItem, code |-> "OK"]

NoClient == [top |-> NoData, replies |-> NoData,
             ctx |-> [c \in CommentIds |-> NoMutation]]

\* the item of a comment that comments.getMany returns to the viewer
ViewerItem(viewer, c) ==
  LET mine == ReactionsOf(commentReactionTable, viewer, c)
      count(type) ==
        Cardinality({r \in commentReactionTable : r.id = c /\ r.type = type})
  IN [viewerReaction |-> IF mine = {} THEN "none"
                         ELSE (CHOOSE r \in mine : TRUE).type,
      likeCount |-> count("like"), dislikeCount |-> count("dislike")]

\* the comments of a query: those of the video (parentId Null) or the replies
\* to a comment
QueryIds(parentId) ==
  {c \in LiveComments(commentsTable) :
     commentsTable[c].videoId = 1 /\ commentsTable[c].parentId = parentId}

QueryData(viewer, parentId) ==
  [loaded |-> TRUE,
   items |-> [c \in CommentIds |->
                IF c \in QueryIds(parentId) THEN ViewerItem(viewer, c) ELSE NoItem]]

Rendered(data, c) == data.loaded /\ data.items[c] # NoItem

\* the comment prop of the CommentItem of c
CommentProp(client, c) ==
  IF Rendered(client.top, c) THEN client.top.items[c] ELSE client.replies.items[c]

\* the query of the comments, or of the replies when they are shown, is
\* fetched or fetched again, for the user who is signed in
Fetch(viewer, replies) ==
  /\ replies => Rendered(queryClient.top, 1)
  /\ queryClient' =
       IF replies THEN [queryClient EXCEPT !.replies = QueryData(viewer, 1)]
       ELSE [queryClient EXCEPT !.top = QueryData(viewer, Null)]
  /\ UNCHANGED <<now, videoTable, commentsTable, resp, trav, videoReactionTable,
                 commentReactionTable, videoViewsTable, subscriptionTable, uploads>>

\* the item that setInfiniteData puts for the comment that was clicked
Optimistic(type, item) ==
  LET other == IF type = "like" THEN "dislike" ELSE "like"
      likes(n) == IF type = "like" THEN item.likeCount + n ELSE item.likeCount - n
      dislikes(n) == IF type = "dislike" THEN item.dislikeCount + n
                     ELSE item.dislikeCount - n
  IN IF item.viewerReaction = type
     THEN [viewerReaction |-> "none",
           likeCount |-> IF type = "like" THEN likes(-1) ELSE item.likeCount,
           dislikeCount |-> IF type = "dislike" THEN dislikes(-1)
                            ELSE item.dislikeCount]
     ELSE IF item.viewerReaction = other
     THEN [viewerReaction |-> type, likeCount |-> likes(1),
           dislikeCount |-> dislikes(1)]
     ELSE [viewerReaction |-> type,
           likeCount |-> IF type = "like" THEN likes(1) ELSE item.likeCount,
           dislikeCount |-> IF type = "dislike" THEN dislikes(1)
                            ELSE item.dislikeCount]

\* setInfiniteData({ videoId, limit: 5 }, old => ...): the pages of the
\* comments of the video, with the item whose id is that of the comment
\* replaced
SetInfiniteData(data, type, c) ==
  IF ~data.loaded THEN data
  ELSE [data EXCEPT !.items =
          [i \in CommentIds |->
             IF i = c /\ @[i] # NoItem THEN Optimistic(type, @[i]) ELSE @[i]]]

\* like.mutate / dislike.mutate of the CommentItem of c, and its onMutate.
\* The buttons are disabled while a mutation of the item is pending.
Mutate(type, c) ==
  LET clicked == [queryClient EXCEPT !.top = SetInfiniteData(@, type, c)]
  IN /\ queryClient.ctx[c].st = "idle"
     /\ Rendered(queryClient.top, c) \/ Rendered(queryClient.replies, c)
     /\ queryClient' = [clicked EXCEPT !.ctx[c] =
          [st |-> "pending", type |-> type, previousData |-> queryClient.top,
           before |-> CommentProp(queryClient, c),
           applied |-> CommentProp(clicked, c), code |-> "OK"]]
     /\ UNCHANGED <<now, videoTable, commentsTable, resp, trav, videoReactionTable,
                    commentReactionTable, videoViewsTable, subscriptionTable,
                    uploads>>

\* the server runs the call of the pending mutation of c
MutationFn(c, clerk, rl) ==
  /\ queryClient.ctx[c].st = "pending"
  /\ CommentsReactCall(IF queryClient.ctx[c].type = "like" THEN "comments.like"
                       ELSE "comments.dislike",
                       queryClient.ctx[c].type, clerk, rl, c, FALSE)
  /\ queryClient' = [queryClient EXCEPT !.ctx[c].st = "answered",
                                        !.ctx[c].code = resp'.code]

\* The answer arrives.  onError puts previousData back; onSettled invalidates
\* the queries of the video, which are then fetched again.
Settled(c) ==
  LET context == queryClient.ctx[c]
  IN /\ context.st = "answered"
     /\ queryClient' =
          [queryClient EXCEPT
             !.top = IF context.code # "OK" /\ context.previousData.loaded
                     THEN context.previousData ELSE @,
             !.ctx[c] = NoMutation]
     /\ UNCHANGED <<now, videoTable, commentsTable, resp, trav, videoReactionTable,
                    commentReactionTable, videoViewsTable, subscriptionTable,
                    uploads>>

\* ------------------------------------------------------------- page fetches
ListOpen(proc, req, rl) ==
  LET r == GetMany(proc, videoTable, commentsTable, req, rl)
      list == [NoList EXCEPT !.proc = proc, !.req = req, !.first = req.cursor,
                 !.kept = IF proc = "comments" THEN {}
                          ELSE Filter(proc, videoTable, commentsTable, req),
                 !.same = IF proc = "comments" THEN {}
                          ELSE LiveVideos(videoTable)]
  IN /\ trav.st = "idle"
     /\ resp' = Reply(r.op, r.code)
     /\ trav' = [Accumulate(list, r) EXCEPT
                   !.accessed = GetManyAccess(proc, req, rl)]
     /\ UNCHANGED <<now, videoTable, commentsTable, otherTables>>

ListFetchNextPage(rl) ==
  LET r == GetMany(trav.proc, videoTable, commentsTable, trav.req, rl)
  IN /\ trav.st \in {"more", "failed"}
     /\ resp' = Reply(r.op, r.code)
     /\ trav' = [Accumulate(trav, r) EXCEPT
                   !.accessed = GetManyAccess(trav.proc, trav.req, rl)]
     /\ UNCHANGED <<now, videoTable, commentsTable, otherTables>>

\* ------------------------------------------------------- the list's trigger
\* hasNextPage: getNextPageParam of the last page fetched is not null; a
\* fetch that failed leaves the pages as they were
HasNextPage(list) ==
  list.st = "more" \/ (list.st = "failed" /\ list.issued # {})

IsManual(list) == list.mode # "auto"

\* fetchNextPage(): the request for the page after the last one
FetchNextPage(list, by) ==
  [list EXCEPT !.isFetchingNextPage = TRUE, !.inflight = @ + 1, !.by = by]

\* InfiniteScroll's effect, which runs after every render that changed
\* isIntersecting, hasNextPage or isFetchingNextPage
Effect(list) ==
  IF list.isIntersecting /\ HasNextPage(list) /\ ~list.isFetchingNextPage
       /\ ~IsManual(list)
  THEN FetchNextPage(list, "effect")
  ELSE list

\* the Load More / Show more button
ButtonRendered(list) == HasNextPage(list)

\* (a button that is never disabled)
ButtonDisabledNever(list) == FALSE

ButtonDisabled(list) ==
  IF list.mode = "replies" THEN list.isFetchingNextPage
  ELSE ~HasNextPage(list) \/ list.isFetchingNextPage

\* The component mounts once the first page is there; its first effect runs
\* with isIntersecting false.
Mount(mode) ==
  /\ trav.st \in {"more", "done"}
  /\ trav.mode = "none"
  /\ mode = "replies" <=> trav.proc = "comments" /\ trav.req.parentId # Null
  /\ trav' = Effect([trav EXCEPT !.mode = mode])
  /\ UNCHANGED <<now, videoTable, commentsTable, resp, otherTables>>

\* the observer's callback: setIsIntersecting(entry.isIntersecting), the
\* render and the effect
Intersect(b) ==
  /\ trav.mode \in {"auto", "manual"}
  /\ b # trav.isIntersecting
  /\ trav' = Effect([trav EXCEPT !.isIntersecting = b, !.by = "none",
                                 !.settled = "none"])
  /\ UNCHANGED <<now, videoTable, commentsTable, resp, otherTables>>

\* onClick of the button, which a disabled or absent button does not deliver
Click ==
  /\ trav.mode # "none"
  /\ ButtonRendered(trav)
  /\ ~ButtonDisabled(trav)
  /\ trav' = Effect(FetchNextPage([trav EXCEPT !.settled = "none"], "click"))
  /\ UNCHANGED <<now, videoTable, commentsTable, resp, otherTables>>

\* The answer to a fetchNextPage request arrives: the page is appended (or
\* the error kept), isFetchingNextPage falls, the component renders and its
\* effect runs.
Settle(rl) ==
  LET r == GetMany(trav.proc, videoTable, commentsTable, trav.req, rl)
      list == [Accumulate(trav, r) EXCEPT
                 !.accessed = GetManyAccess(trav.proc, trav.req, rl),
                 !.inflight = @ - 1,
                 !.isFetchingNextPage = trav.inflight > 1,
                 !.by = "none",
                 !.settled = IF r.code = "OK" THEN "ok" ELSE "error"]
  IN /\ trav.inflight > 0
     /\ resp' = Reply(r.op, r.code)
     /\ trav' = Effect(list)
     /\ UNCHANGED <<now, videoTable, commentsTable, otherTables>>

\* ------------------------------------------------------------ specifications
Sessions == {NoSession} \cup ClerkIds

NoResponse == Reply("none", "OK")

\* the signed-in user whose writes run between the page fetches of a list
Writer == 1

\* the limits of the lists that are followed to their end
PageLimits == {MinLimit, MinLimit + 1}

\* the videos that are there before the first comment
StartVideos == 1..2

\* no reaction, view or subscription is stored, and nothing was uploaded for
\* the videos that are there
NoOtherRows ==
  /\ videoReactionTable = {}
  /\ commentReactionTable = {}
  /\ videoViewsTable = {}
  /\ subscriptionTable = {}
  /\ videoTableMux = [v \in VideoIds |->
       IF videoTable[v].st = "live" THEN Waiting(v) ELSE NoMux]
  /\ utapi = NoFiles
  /\ muxAssets = [a \in AssetIds |-> "none"]
  /\ queryClient = NoClient

InitEmpty ==
  /\ now = 0
  /\ videoTable = [v \in VideoIds |-> FreeVideo]
  /\ commentsTable = [c \in CommentIds |-> FreeComment]
  /\ resp = NoResponse
  /\ trav = NoList
  /\ NoOtherRows

InitComments ==
  /\ now = 0
  /\ videoTable = [v \in VideoIds |->
       IF v \in StartVideos
       THEN [updatedAt |-> 0, st |-> "live", uploaderId |-> Writer,
             categoryId |-> Null, visibility |-> "public"]
       ELSE FreeVideo]
  /\ commentsTable = [c \in CommentIds |-> FreeComment]
  /\ resp = NoResponse
  /\ trav = NoList
  /\ NoOtherRows

\* comments.create and comments.remove, called by anyone with any input
NextComments ==
  \/ Tick
  \/ \E s \in Sessions, rl \in BOOLEAN, v \in VideoIds,
        p \in {Null} \cup CommentIds, stale \in BOOLEAN, id \in CommentIds :
       CommentsCreate(s, rl, v, p, stale, id)
  \/ \E s \in Sessions, rl \in BOOLEAN, id \in CommentIds : CommentsRemove(s, rl, id)

SpecComments == InitComments /\ [][NextComments]_vars

\* A list is followed until its last page: the writes that matter to it are
\* those before that.
Following == trav.st # "done"

\* one list of comments followed page by page, with comment writes in between
NextCommentPages ==
  \/ Tick
  \/ \E v \in StartVideos, p \in {Null} \cup CommentIds, id \in CommentIds :
       Following /\ CommentsCreate(Writer, TRUE, v, p, FALSE, id)
  \/ \E id \in CommentIds : Following /\ CommentsRemove(Writer, TRUE, id)
  \/ \E v \in StartVideos, p \in {Null} \cup CommentIds, l \in PageLimits :
       ListOpen("comments", Request(v, p, NoCursor, l, NoSession), TRUE)
  \/ ListFetchNextPage(TRUE)

SpecCommentPages == InitComments /\ [][NextCommentPages]_vars

\* one list of videos (studio or suggestions) followed page by page, with
\* video writes in between
NextVideoPages ==
  \/ Tick
  \/ \E id \in VideoIds : Following /\ VideosCreate(Writer, TRUE, TRUE, id)
  \/ \E id \in VideoIds, cat \in {Omitted} \cup Categories, vis \in {"keep", "public"} :
       Following /\ VideosUpdate(Writer, TRUE, id, cat, vis)
  \/ \E id \in VideoIds : Following /\ VideosRemove(Writer, TRUE, id)
  \/ \E l \in PageLimits :
       ListOpen("studio", Request(Null, Null, NoCursor, l, Writer), TRUE)
  \/ \E v \in VideoIds, l \in PageLimits :
       ListOpen("suggestions", Request(v, Null, NoCursor, l, NoSession), TRUE)
  \/ ListFetchNextPage(TRUE)

SpecVideoPages == InitEmpty /\ [][NextVideoPages]_vars

\* the first pages of the three lists, with every limit a caller can send
NextLimits ==
  \/ Tick
  \/ \E id \in VideoIds : Following /\ VideosCreate(Writer, TRUE, TRUE, id)
  \/ \E v \in StartVideos, id \in CommentIds :
       Following /\ CommentsCreate(Writer, TRUE, v, Null, FALSE, id)
  \/ \E v \in StartVideos, l \in LimitInputs :
       ListOpen("comments", Request(v, Null, NoCursor, l, NoSession), TRUE)
  \/ \E l \in LimitInputs, s \in Sessions, rl \in BOOLEAN :
       ListOpen("studio", Request(Null, Null, NoCursor, l, s), rl)
  \/ \E v \in VideoIds, l \in LimitInputs :
       ListOpen("suggestions", Request(v, Null, NoCursor, l, NoSession), TRUE)
  \/ \E rl \in BOOLEAN : ListFetchNextPage(rl)

SpecLimits == InitComments /\ [][NextLimits]_vars

\* every cursor a caller can send: none, or the id of any video with any Date
Cursors ==
  {NoCursor} \cup
    {[id |-> i, updatedAt |-> d] : i \in VideoIds, d \in 0..ToDate(MaxNow)}

\* The videos of two users, written before a list is opened; the lists of
\* videos, opened by anyone with any cursor; studio.getOne.  At the start each
\* user has one video, the second user's published.
InitOwners ==
  /\ now = 0
  /\ videoTable = [v \in VideoIds |->
       IF v = 1 THEN [updatedAt |-> 0, st |-> "live", uploaderId |-> 1,
                      categoryId |-> Null, visibility |-> "private"]
       ELSE IF v = 2 THEN [updatedAt |-> 0, st |-> "live", uploaderId |-> 2,
                           categoryId |-> Null, visibility |-> "public"]
       ELSE FreeVideo]
  /\ commentsTable = [c \in CommentIds |-> FreeComment]
  /\ resp = NoResponse
  /\ trav = NoList
  /\ NoOtherRows

NextOwners ==
  \/ Tick
  \/ \E s \in Users, id \in VideoIds :
       trav.st = "idle" /\ VideosCreate(s, TRUE, TRUE, id)
  \/ \E s \in Users, id \in VideoIds, cat \in {Omitted} \cup Categories,
        vis \in {"keep", "public"} :
       /\ trav.st = "idle"
       /\ videoTable[id].uploaderId = s
       /\ VideosUpdate(s, TRUE, id, cat, vis)
  \/ \E s \in Sessions, rl \in BOOLEAN, id \in VideoIds :
       trav.st = "idle" /\ StudioGetOne(s, rl, id)
  \/ \E s \in Users, c \in Cursors, l \in PageLimits :
       ListOpen("studio", Request(Null, Null, c, l, s), TRUE)
  \/ \E s \in {NoSession, Writer}, v \in VideoIds, c \in Cursors, l \in PageLimits :
       ListOpen("suggestions", Request(v, Null, c, l, s), TRUE)
  \/ ListFetchNextPage(TRUE)

SpecOwners == InitOwners /\ [][NextOwners]_vars

\* the ways a list component is mounted
Modes == {"auto", "manual", "replies"}

\* One list (the signed-in user's studio videos, or the comments of a video
\* or the replies to one of them) shown by its component: the rows are written
\* before the list is opened, then the sentinel enters and leaves the
\* viewport, the user clicks the button, and the fetches are answered, the
\* rate limiter refusing some of the studio calls.
NextScroll ==
  \/ Tick
  \/ \E id \in VideoIds : trav.st = "idle" /\ VideosCreate(Writer, TRUE, TRUE, id)
  \/ \E p \in {Null} \cup CommentIds, id \in CommentIds :
       trav.st = "idle" /\ CommentsCreate(Writer, TRUE, 1, p, FALSE, id)
  \/ \E l \in PageLimits :
       ListOpen("studio", Request(Null, Null, NoCursor, l, Writer), TRUE)
  \/ \E p \in {Null} \cup CommentIds, l \in PageLimits :
       ListOpen("comments", Request(1, p, NoCursor, l, NoSession), TRUE)
  \/ \E mode \in Modes : Mount(mode)
  \/ \E b \in BOOLEAN : Intersect(b)
  \/ Click
  \/ \E rl \in BOOLEAN : Settle(rl)

SpecScroll == InitComments /\ [][NextScroll]_vars

\* One video and one comment on it; anyone likes and dislikes them, and
\* videos and comments that are not stored, calls of one user for one target
\* overlapping; the comment and the video are removed by their owner.
InitReactions ==
  /\ now = 0
  /\ videoTable = [v \in VideoIds |->
       IF v = 1
       THEN [updatedAt |-> 0, st |-> "live", uploaderId |-> Writer,
             categoryId |-> Null, visibility |-> "public"]
       ELSE FreeVideo]
  /\ commentsTable = [c \in CommentIds |->
       IF c = 1
       THEN [updatedAt |-> 0, st |-> "live", videoId |-> 1, userId |-> Writer,
             parentId |-> Null]
       ELSE FreeComment]
  /\ resp = NoResponse
  /\ trav = NoList
  /\ NoOtherRows

NextReactions ==
  \/ \E s \in Sessions, rl \in BOOLEAN, v \in VideoIds, stale \in BOOLEAN :
       VideosLike(s, rl, v, stale)
  \/ \E s \in Sessions, rl \in BOOLEAN, v \in VideoIds, stale \in BOOLEAN :
       VideosDislike(s, rl, v, stale)
  \/ \E s \in Sessions, rl \in BOOLEAN, c \in CommentIds, stale \in BOOLEAN :
       CommentsLike(s, rl, c, stale)
  \/ \E s \in Sessions, rl \in BOOLEAN, c \in CommentIds, stale \in BOOLEAN :
       CommentsDislike(s, rl, c, stale)
  \/ \E id \in CommentIds : CommentsRemove(Writer, TRUE, id)
  \/ \E id \in VideoIds : VideosRemove(Writer, TRUE, id)

SpecReactions == InitReactions /\ [][NextReactions]_vars

\* the views of two videos, recorded by anyone, calls of one user for one
\* video overlapping, while the videos are removed
NextViews ==
  \/ Tick
  \/ \E s \in Sessions, rl \in BOOLEAN, v \in VideoIds, stale \in BOOLEAN :
       VideosCreateView(s, rl, v, stale)
  \/ \E id \in VideoIds : VideosRemove(Writer, TRUE, id)

SpecViews == InitComments /\ [][NextViews]_vars

\* the subscriptions between the users, toggled by anyone for any channel,
\* calls of one user for one channel overlapping
NextSubscriptions ==
  \/ Tick
  \/ \E s \in Sessions, rl \in BOOLEAN, ch \in ClerkIds, stale \in BOOLEAN :
       SubscriptionsToggle(s, rl, ch, stale)

SpecSubscriptions == InitComments /\ [][NextSubscriptions]_vars

\* the events of the assets that Mux sends, but for video.asset.ready
MuxPayloads ==
  {Payload(type, status, a, UploadOf(a), Null, "absent") :
     type \in EventTypes \ {"video.asset.ready", "video.asset.track.ready"},
     status \in MuxStatuses, a \in AssetIds}
  \cup {Payload("video.asset.track.ready", "ready", t, Null, a, "absent") :
          t \in TrackIds, a \in {Null} \cup AssetIds}

\* its video.asset.ready events
ReadyPayloads ==
  {Payload("video.asset.ready", status, a, UploadOf(a), Null, p) :
     status \in MuxStatuses, a \in AssetIds, p \in {"absent", "empty", "one"}}

\* the payloads of the requests that anyone sends
AnyPayloads ==
  {Payload(type, "ready", 1, u, 1, "one") : type \in EventTypes, u \in {Null, 1}}

\* One video and one comment on it.  The owner sends the file to Mux, assets
\* are made and deleted in the dashboard, Mux sends the events of the assets,
\* and anyone sends requests to the webhook, with and without a signature
\* and a configured secret.
NextWebhook ==
  \/ \E a \in AssetIds : MuxStoreAsset(a)
  \/ \E a \in AssetIds : MuxDeleteAsset(a)
  \/ \E payload \in MuxPayloads : MuxWebhook(TRUE, "good", payload, TRUE, TRUE)
  \/ \E payload \in ReadyPayloads, thumbOk, previewOk \in BOOLEAN :
       MuxWebhook(TRUE, "good", payload, thumbOk, previewOk)
  \/ \E signature \in {"none", "bad"}, payload \in AnyPayloads :
       MuxWebhook(TRUE, signature, payload, TRUE, TRUE)
  \/ \E signature \in {"none", "bad"}, payload \in AnyPayloads :
       MuxWebhook(FALSE, signature, payload, TRUE, TRUE)
  \/ \E payload \in MuxPayloads \cup ReadyPayloads :
       MuxWebhook(FALSE, "good", payload, TRUE, TRUE)

SpecWebhook == InitReactions /\ [][NextWebhook]_vars

\* One video and one comment on it.  The owner sends the file to Mux and Mux
\* sends the video.asset.ready event; the two users update and remove videos
\* and comments and restore thumbnails, those that are stored and those that
\* are not.
NextThumbnails ==
  \/ MuxStoreAsset(1)
  \/ \E thumbOk, previewOk \in BOOLEAN :
       MuxWebhook(TRUE, "good", Payload("video.asset.ready", "ready", 1, 1, Null, "one"),
                  thumbOk, previewOk)
  \/ \E s \in Users, id \in 1..2, deleteOk, uploadOk \in BOOLEAN :
       VideosRestoreThumbnail(s, TRUE, id, deleteOk, uploadOk)
  \/ \E s \in Users, id \in 1..2 : VideosUpdate(s, TRUE, id, Omitted, "private")
  \/ \E s \in Users, id \in 1..2 : VideosRemove(s, TRUE, id)
  \/ \E s \in Users, id \in 1..2 : CommentsRemove(s, TRUE, id)

SpecThumbnails == InitReactions /\ [][NextThumbnails]_vars

\* One video, a comment on it and a reply to the comment.  The viewer's tab
\* shows the comments and the replies; the viewer clicks like and dislike of
\* one item at a time, signed in or not and with the rate limiter granting
\* and refusing, while the other user likes the same comments.
InitReplies ==
  /\ now = 0
  /\ videoTable = [v \in VideoIds |->
       IF v = 1
       THEN [updatedAt |-> 0, st |-> "live", uploaderId |-> Writer,
             categoryId |-> Null, visibility |-> "public"]
       ELSE FreeVideo]
  /\ commentsTable = [c \in CommentIds |->
       IF c \in 1..2
       THEN [updatedAt |-> 0, st |-> "live", videoId |-> 1, userId |-> Writer,
             parentId |-> IF c = 1 THEN Null ELSE 1]
       ELSE FreeComment]
  /\ resp = NoResponse
  /\ trav = NoList
  /\ NoOtherRows

NextOptimistic ==
  \/ \E replies \in BOOLEAN : Fetch(Writer, replies)
  \/ \E type \in {"like", "dislike"}, c \in 1..2 :
       /\ \A d \in CommentIds : queryClient.ctx[d].st = "idle"
       /\ Mutate(type, c)
  \/ \E c \in 1..2, clerk \in {NoSession, Writer}, rl \in BOOLEAN :
       MutationFn(c, clerk, rl)
  \/ \E c \in 1..2 : Settled(c)
  \/ \E c \in 1..2 : CommentsLike(2, TRUE, c, FALSE)

SpecOptimistic == InitReplies /\ [][NextOptimistic]_vars

\* the callers of the protected procedures: no session, a Clerk account that
\* is not registered, and a registered user
Callers == {NoSession, 0, Writer}

\* ratelimit.limit(user.id) is called for a registered user only: what it
\* answers (TRUE: the call is let through)
Limiter(s) == IF s \in Users THEN BOOLEAN ELSE {TRUE}

\* Every protected procedure, called by each kind of caller with the rate
\* limiter granting and refusing, for the video and the comment that are
\* stored.
NextProtected ==
  \/ \E s \in Callers : \E rl \in Limiter(s) : VideosCreate(s, rl, TRUE, 2)
  \/ \E s \in Callers : \E rl \in Limiter(s) : VideosUpdate(s, rl, 1, Omitted, "public")
  \/ \E s \in Callers : \E rl \in Limiter(s) : VideosRemove(s, rl, 1)
  \/ \E s \in Callers : \E rl \in Limiter(s) : CommentsCreate(s, rl, 1, Null, FALSE, 2)
  \/ \E s \in Callers : \E rl \in Limiter(s) : CommentsRemove(s, rl, 1)
  \/ \E s \in Callers : \E rl \in Limiter(s) : VideosLike(s, rl, 1, FALSE)
  \/ \E s \in Callers : \E rl \in Limiter(s) : VideosDislike(s, rl, 1, FALSE)
  \/ \E s \in Callers : \E rl \in Limiter(s) : CommentsLike(s, rl, 1, FALSE)
  \/ \E s \in Callers : \E rl \in Limiter(s) : CommentsDislike(s, rl, 1, FALSE)
  \/ \E s \in Callers : \E rl \in Limiter(s) : VideosCreateView(s, rl, 1, FALSE)
  \/ \E s \in Callers : \E rl \in Limiter(s) : SubscriptionsToggle(s, rl, 2, FALSE)
  \/ \E s \in Callers : \E rl \in Limiter(s) : StudioGetOne(s, rl, 1)
  \/ \E s \in Callers : \E rl \in Limiter(s) :
       ListOpen("studio", Request(Null, Null, NoCursor, MinLimit, s), rl)
  \/ \E rl \in BOOLEAN : ListFetchNextPage(rl)

SpecProtected == InitReactions /\ [][NextProtected]_vars

\* ==================================================================== claims
\* A step that fetched a page: the list changed and no table did.
FetchStep ==
  /\ trav' # trav
  /\ videoTable' = videoTable
  /\ commentsTable' = commentsTable

\* the input of the fetch of such a step, and the ids of the page it returned
Fetched ==
  [trav'.req EXCEPT
     !.cursor = IF trav.st = "idle" THEN trav'.first ELSE trav.req.cursor]

FetchedPage == SubSeq(trav'.items, Len(trav.items) + 1, Len(trav'.items))

Range(s) == {s[i] : i \in 1..Len(s)}

Count(x, s) == Cardinality({i \in 1..Len(s) : s[i] = x})

\* the rows of the list's table that the list's filter matches
Matching(list) == Filter(list.proc, videoTable, commentsTable, list.req)

\* the rows the fetch of a FetchStep had after its cursor
AfterCursor ==
  {i \in Filter(trav'.proc, videoTable, commentsTable, Fetched) :
     CursorPred(Table(trav'.proc, videoTable, commentsTable), i, Fetched.cursor)}

\* C1: over a static collection, the pages from no cursor to the null
\* nextCursor, concatenated, are the whole filtered result in (updatedAt desc,
\* id desc) order, every matching row exactly once.
C1_FullTraversal ==
  trav.st = "done" /\ trav.static
    => trav.items = OrderBy(Table(trav.proc, videoTable, commentsTable),
                            Matching(trav))

\* C2: a fetch with limit L never returns more than L items; with exactly L
\* rows after the cursor it returns them all and a null nextCursor; with L + 1
\* or more it returns L items and nextCursor = {id, updatedAt} of the last
\* item returned.
C2_PageAndCursor ==
  [][FetchStep /\ trav'.st \in {"more", "done"} =>
       LET L == WithDefault(Fetched.limit)
           n == Cardinality(AfterCursor)
           table == Table(trav'.proc, videoTable, commentsTable)
       IN /\ Len(FetchedPage) <= L
          /\ n = L => /\ Range(FetchedPage) = AfterCursor
                      /\ Len(FetchedPage) = L
                      /\ trav'.req.cursor = NoCursor
          /\ n > L => /\ Len(FetchedPage) = L
                      /\ FetchedPage = Take(OrderBy(table, AfterCursor), L)
                      /\ trav'.req.cursor = Item(table, FetchedPage[L])]_vars

\* a list of videos whose first page was full and whose second and last page
\* held exactly limit rows
C2_Witness ==
  /\ trav.proc \in {"studio", "suggestions"}
  /\ trav.st = "done"
  /\ Cardinality(trav.issued) = 1
  /\ Len(trav.items) = 2 * trav.req.limit

\* every page from a cursor to the end of the list, over tables that stay as
\* they are
RECURSIVE Rest(_, _, _, _)
Rest(proc, vt, ct, req) ==
  LET r == GetMany(proc, vt, ct, req, TRUE)
  IN IF r.nextCursor = NoCursor THEN <<Ids(r.items)>>
     ELSE <<Ids(r.items)>> \o Rest(proc, vt, ct, [req EXCEPT !.cursor = r.nextCursor])

\* a comment inserted by the step, newer than every cursor issued
InsertedNewer(id) ==
  /\ commentsTable[id].st = "unused"
  /\ commentsTable'[id].st = "live"
  /\ \A c \in trav.issued : commentsTable'[id].updatedAt > FromDate(c.updatedAt)

C4_UpdatedTraversal ==
  trav.st = "done" /\ trav.proc = "suggestions"
    => \A v \in trav.kept : Count(v, trav.items) = 1

\* the step deletes the row of the list's cursor, and no other row
RemovesCursorRow ==
  /\ trav.st = "more"
  /\ trav.proc = "comments"
  /\ commentsTable[trav.req.cursor.id].st = "live"
  /\ commentsTable' =
       [commentsTable EXCEPT ![trav.req.cursor.id] = GoneComment(@)]

\* row id sorts strictly after the (updatedAt, id) position of cursor c
StrictlyAfter(table, id, c) ==
  \/ table[id].updatedAt < FromDate(c.updatedAt)
  \/ table[id].updatedAt = FromDate(c.updatedAt) /\ id < c.id

C6_ReplyIsolation ==
  [][FetchStep /\ trav'.proc = "comments" =>
       \A c \in Range(FetchedPage) :
         /\ commentsTable[c].st = "live"
         /\ commentsTable[c].videoId = Fetched.videoId
         /\ commentsTable[c].parentId = Fetched.parentId
         /\ c # Fetched.parentId]_vars

\* the replies to one comment were listed, and returned, while that comment
\* and another top-level comment of the video were stored
C6_Witness ==
  /\ trav.proc = "comments"
  /\ trav.req.parentId \in LiveComments(commentsTable)
  /\ trav.items # <<>>
  /\ Range(trav.items) \subseteq LiveComments(commentsTable)
  /\ \E c \in LiveComments(commentsTable) \ Range(trav.items) :
       /\ c # trav.req.parentId
       /\ commentsTable[c].videoId = trav.req.videoId
       /\ commentsTable[c].parentId = Null

\* C7: comments.create by a caller who passes the authorisation, with a
\* parentId of a comment that is itself a reply, fails with BAD_REQUEST and
\* inserts nothing; with a parentId of no existing comment it fails with
\* NOT_FOUND and inserts nothing.
C7_CreateRejectsParent ==
  [][resp'.op = "comments.create" =>
       \A s \in Users, v \in VideoIds, p \in CommentIds, id \in CommentIds :
         CommentsCreate(s, TRUE, v, p, FALSE, id) =>
           /\ commentsTable[p].st = "live" /\ commentsTable[p].parentId # Null
                => resp'.code = "BAD_REQUEST" /\ commentsTable' = commentsTable
           /\ commentsTable[p].st # "live"
                => resp'.code = "NOT_FOUND" /\ commentsTable' = commentsTable]_vars

\* a reply to a reply was refused while replies are stored
C7_Witness ==
  /\ resp = Reply("comments.create", "BAD_REQUEST")
  /\ \E c \in LiveComments(commentsTable) : commentsTable[c].parentId # Null

C9_MissingParentFails ==
  [][FetchStep =>
       /\ trav'.proc = "suggestions"
            /\ Fetched.videoId \notin LiveVideos(videoTable)
            => trav'.st = "failed" /\ resp'.code = "NOT_FOUND"
       /\ trav'.proc = "comments" /\ Fetched.parentId # Null
            /\ Fetched.parentId \notin LiveComments(commentsTable)
            => trav'.st = "failed" /\ resp'.code = "NOT_FOUND"]_vars

\* C10: a getMany call that reaches its input validation with a limit below 1
\* or above 100 fails with BAD_REQUEST; no call with such a limit returns a
\* page, whoever calls; a limit inside 1..100 is not refused, and the page has
\* at most that many items.
C10_LimitRange ==
  [][FetchStep /\ Fetched.limit # Omitted =>
       IF Fetched.limit < 1 \/ Fetched.limit > 100
       THEN /\ trav'.st = "failed"
            /\ FetchedPage = <<>>
            /\ resp'.code \in {"BAD_REQUEST", "UNAUTHORIZED", "TOO_MANY_REQUESTS"}
            /\ trav'.proc = "studio" \/ resp'.code = "BAD_REQUEST"
            /\ AuthCode(Fetched.clerk, TRUE) = "OK"
                 => resp'.code \in {"BAD_REQUEST", "TOO_MANY_REQUESTS"}
       ELSE /\ resp'.code # "BAD_REQUEST"
            /\ Len(FetchedPage) <= Fetched.limit]_vars

\* a list refused for a limit of 101, while a list with limit 1 would have a
\* second page
C10_Witness ==
  /\ trav.st = "failed"
  /\ trav.req.limit = MaxLimit + 1
  /\ resp.code = "BAD_REQUEST"
  /\ Cardinality(Matching(trav)) > 1

\* C11: a page fetch with a limit outside the range (or, where the schema
\* requires one, with none) is rejected before any storage is read, the users
\* table and the rate limiter of protectedProcedure included.
C11_RejectedBeforeStorage ==
  [][FetchStep /\ (Fetched.limit = Omitted => trav'.proc # "comments")
       /\ ~LimitOk(Fetched.limit)
       => trav'.st = "failed" /\ trav'.accessed = {}]_vars

\* C12: every item of studio.getMany, for every cursor (one of another user's
\* video included), and the video of studio.getOne are the caller's own;
\* studio.getOne for another user's video fails with NOT_FOUND.
C12_StudioOwnVideos ==
  [][/\ FetchStep /\ trav'.proc = "studio" =>
          \A i \in Range(FetchedPage) :
            /\ i \in LiveVideos(videoTable)
            /\ videoTable[i].uploaderId = trav'.req.clerk
     /\ resp'.op = "studio.getOne" =>
          \A s \in Sessions, rl \in BOOLEAN, id \in VideoIds :
            StudioGetOne(s, rl, id) =>
              /\ resp'.code = "OK" =>
                   id \in LiveVideos(videoTable) /\ videoTable[id].uploaderId = s
              /\ /\ AuthCode(s, rl) = "OK"
                 /\ id \in LiveVideos(videoTable)
                 /\ videoTable[id].uploaderId # s
                 => resp'.code = "NOT_FOUND"]_vars

\* a studio list opened with the cursor of another user's video returned
\* videos, while a video of another user lay after that cursor
C12_Witness ==
  /\ trav.proc = "studio"
  /\ trav.items # <<>>
  /\ trav.first # NoCursor
  /\ trav.first.id \in LiveVideos(videoTable)
  /\ videoTable[trav.first.id].uploaderId # trav.req.clerk
  /\ \E v \in LiveVideos(videoTable) :
       /\ videoTable[v].uploaderId # trav.req.clerk
       /\ CursorPred(videoTable, v, trav.first)

\* C13: every item of suggestions.getMany({videoId: R}) is public, is not R
\* and, when R has a category, has the category of R, for every cursor, limit
\* and caller.
C13_SuggestionsFilter ==
  [][FetchStep /\ trav'.proc = "suggestions" =>
       \A i \in Range(FetchedPage) :
         /\ i \in LiveVideos(videoTable)
         /\ videoTable[i].visibility = "public"
         /\ i # Fetched.videoId
         /\ videoTable[Fetched.videoId].categoryId # Null
              => videoTable[i].categoryId = videoTable[Fetched.videoId].categoryId]_vars

\* suggestions for a video with a category were listed without a session, and
\* returned a video while a public video of no category was left out
C13_Witness ==
  /\ trav.proc = "suggestions"
  /\ trav.req.clerk = NoSession
  /\ trav.items # <<>>
  /\ trav.req.videoId \in LiveVideos(videoTable)
  /\ videoTable[trav.req.videoId].categoryId # Null
  /\ \E v \in LiveVideos(videoTable) \ Range(trav.items) :
       /\ v # trav.req.videoId
       /\ videoTable[v].visibility = "public"
       /\ videoTable[v].categoryId = Null

C15_EdgeTriggered ==
  [][trav' # trav /\ trav'.mode = "auto" /\ trav'.by = "effect"
       /\ trav'.settled # "error"
       => ~trav.isIntersecting /\ trav'.isIntersecting]_vars

\* C16: a step in which a page fetch fails leaves the trigger idle: no
\* fetchNextPage is called in it, and none is outstanding after it.
C16_NoRetryAfterFailure ==
  [][trav' # trav /\ trav'.settled = "error"
       => trav'.by = "none" /\ ~trav'.isFetchingNextPage /\ trav'.inflight = 0]_vars

\* every cursor a caller of comments.getMany can send
CommentCursors ==
  {NoCursor} \cup
    {[id |-> i, updatedAt |-> d] : i \in CommentIds, d \in 0..ToDate(MaxNow)}

\* C17: the totalCount of a comments.getMany page is the number of comments
\* of the video with the parentId asked for (null when none is given), the
\* same for every cursor and limit, and once a traversal of a static
\* collection is complete it is the number of items of the traversal.
C17_TotalCount ==
  [][FetchStep /\ trav'.proc = "comments" /\ trav'.st \in {"more", "done"} =>
       LET total == CommentsGetMany(commentsTable, Fetched).totalCount
       IN /\ total = Cardinality({c \in LiveComments(commentsTable) :
                        /\ commentsTable[c].videoId = Fetched.videoId
                        /\ commentsTable[c].parentId = Fetched.parentId})
          /\ \A c \in CommentCursors, l \in PageLimits :
               CommentsGetMany(commentsTable,
                 [Fetched EXCEPT !.cursor = c, !.limit = l]).totalCount = total
          /\ trav'.st = "done" /\ trav'.static => Len(trav'.items) = total]_vars

\* the reaction of a user to a target: "none", or the type of the row
Reaction(table, userId, id) ==
  LET mine == ReactionsOf(table, userId, id)
  IN IF mine = {} THEN "none" ELSE (CHOOSE r \in mine : TRUE).type

\* what the claim says a call of procedure type makes of reaction x
Toggled(type, x) == IF x = type THEN "none" ELSE type

\* the step leaves the rows of every other user and target as they are
OthersKept(before, after, userId, id) ==
  before \ ReactionsOf(before, userId, id) = after \ ReactionsOf(after, userId, id)

\* C18: for one user and one target, a call of like that overlaps no other
\* call for them makes none and dislike into like and like into none, and a
\* call of dislike makes none and like into dislike and dislike into none;
\* after any calls, overlapping or not, there is at most one reaction row for
\* a user and a target.
C18_ThreeValuedReaction ==
  [][/\ \A u \in Users, v \in LiveVideos(videoTable) :
          /\ VideosLike(u, TRUE, v, FALSE) =>
               /\ Reaction(videoReactionTable', u, v) =
                    Toggled("like", Reaction(videoReactionTable, u, v))
               /\ OthersKept(videoReactionTable, videoReactionTable', u, v)
          /\ VideosDislike(u, TRUE, v, FALSE) =>
               /\ Reaction(videoReactionTable', u, v) =
                    Toggled("dislike", Reaction(videoReactionTable, u, v))
               /\ OthersKept(videoReactionTable, videoReactionTable', u, v)
     /\ \A u \in Users, c \in LiveComments(commentsTable) :
          /\ CommentsLike(u, TRUE, c, FALSE) =>
               /\ Reaction(commentReactionTable', u, c) =
                    Toggled("like", Reaction(commentReactionTable, u, c))
               /\ OthersKept(commentReactionTable, commentReactionTable', u, c)
          /\ CommentsDislike(u, TRUE, c, FALSE) =>
               /\ Reaction(commentReactionTable', u, c) =
                    Toggled("dislike", Reaction(commentReactionTable, u, c))
               /\ OthersKept(commentReactionTable, commentReactionTable', u, c)
     /\ \A u \in Users, v \in VideoIds :
          Cardinality(ReactionsOf(videoReactionTable', u, v)) <= 1
     /\ \A u \in Users, c \in CommentIds :
          Cardinality(ReactionsOf(commentReactionTable', u, c)) <= 1]_vars

\* a like of a comment was stored (the call returned a like row that is
\* there) while another user dislikes the comment and a video is disliked
C18_Witness ==
  /\ resp.op = "comments.like"
  /\ resp.code = "OK"
  /\ resp.value # {}
  /\ resp.value \subseteq commentReactionTable
  /\ \E r \in commentReactionTable : r.type = "dislike"
  /\ \E r \in videoReactionTable : r.type = "dislike"

\* C19: every createView call of a registered user for a stored video leaves
\* exactly one view row for the user and the video and returns that row, the
\* one already there when there is one, and no error.
C19_CreateViewIdempotent ==
  [][\A u \in Users, v \in LiveVideos(videoTable), stale \in BOOLEAN :
       VideosCreateView(u, TRUE, v, stale) =>
         /\ Cardinality(ViewsOf(videoViewsTable', u, v)) = 1
         /\ ViewsOf(videoViewsTable, u, v) # {}
              => videoViewsTable' = videoViewsTable
         /\ resp'.code = "OK"
         /\ resp'.value = ViewsOf(videoViewsTable', u, v)]_vars

\* C20: a subscriptions.toggle call that overlaps no other call for the pair
\* makes a stored row of (subscriber, channel) into none and returns
\* subscribed = false, and makes none into a row and returns subscribed =
\* true; with the caller's own id as channelId it fails with BAD_REQUEST and
\* stores nothing; after any calls, overlapping or not, no row has
\* subscriberId = channelId and there is at most one row for a pair.
C20_ToggleSubscription ==
  [][/\ \A u \in Users, ch \in Users :
          SubscriptionsToggle(u, TRUE, ch, FALSE) =>
            LET before == SubscriptionsOf(subscriptionTable, u, ch)
                after == SubscriptionsOf(subscriptionTable', u, ch)
            IN IF u = ch
               THEN /\ resp'.code = "BAD_REQUEST"
                    /\ subscriptionTable' = subscriptionTable
               ELSE /\ resp'.code = "OK"
                    /\ after = {} <=> before # {}
                    /\ resp'.value = Subscribed(after # {})
                    /\ subscriptionTable' \ after = subscriptionTable \ before
     /\ \A r \in subscriptionTable' : r.subscriberId # r.channelId
     /\ \A u \in Users, ch \in Users :
          Cardinality(SubscriptionsOf(subscriptionTable', u, ch)) <= 1]_vars

\* a user has just unsubscribed from a channel that subscribes to them, after
\* a call for their own channel could have been made
C20_Witness ==
  /\ resp.op = "subscriptions.toggle"
  /\ resp.code = "OK"
  /\ resp.value = Subscribed(FALSE)
  /\ Cardinality(subscriptionTable) = 1
  /\ now > 0

\* the code the claim gives a protected call: "OK" stands for a call that the
\* middleware lets through
Expected(clerk, rl) ==
  IF clerk = NoSession \/ clerk \notin Users THEN "UNAUTHORIZED"
  ELSE IF ~rl THEN "TOO_MANY_REQUESTS"
  ELSE "OK"

\* a step of call (an action) by caller clerk is as the claim says
Guarded(call, clerk, rl) ==
  call =>
    IF Expected(clerk, rl) = "OK"
    THEN resp'.code \notin {"UNAUTHORIZED", "TOO_MANY_REQUESTS"}
    ELSE /\ resp'.code = Expected(clerk, rl)
         /\ resp'.value = {}
         /\ UNCHANGED <<videoTable, commentsTable, otherTables>>
         /\ trav'.items = trav.items
         /\ trav' = trav \/ trav'.accessed \subseteq {"users", "ratelimit"}

\* C21: a call of a protected procedure without a session or by an
\* unregistered account fails with UNAUTHORIZED, one beyond the rate limit
\* with TOO_MANY_REQUESTS, and neither reads nor writes the tables of the
\* procedure; only a call of a registered user within the limit gets another
\* answer.
C21_ProtectedGuard ==
  [][\A s \in Callers, rl \in BOOLEAN :
       /\ resp'.op = "videos.create" =>
            Guarded(VideosCreate(s, rl, TRUE, 2), s, rl)
       /\ resp'.op = "videos.update" =>
            Guarded(VideosUpdate(s, rl, 1, Omitted, "public"), s, rl)
       /\ resp'.op = "videos.remove" =>
            Guarded(VideosRemove(s, rl, 1), s, rl)
       /\ resp'.op = "comments.create" =>
            Guarded(CommentsCreate(s, rl, 1, Null, FALSE, 2), s, rl)
       /\ resp'.op = "comments.remove" =>
            Guarded(CommentsRemove(s, rl, 1), s, rl)
       /\ resp'.op = "videos.like" =>
            Guarded(VideosLike(s, rl, 1, FALSE), s, rl)
       /\ resp'.op = "videos.dislike" =>
            Guarded(VideosDislike(s, rl, 1, FALSE), s, rl)
       /\ resp'.op = "comments.like" =>
            Guarded(CommentsLike(s, rl, 1, FALSE), s, rl)
       /\ resp'.op = "comments.dislike" =>
            Guarded(CommentsDislike(s, rl, 1, FALSE), s, rl)
       /\ resp'.op = "videos.createView" =>
            Guarded(VideosCreateView(s, rl, 1, FALSE), s, rl)
       /\ resp'.op = "subscriptions.toggle" =>
            Guarded(SubscriptionsToggle(s, rl, 2, FALSE), s, rl)
       /\ resp'.op = "studio.getOne" =>
            Guarded(StudioGetOne(s, rl, 1), s, rl)
       /\ resp'.op = "studio.getMany" =>
            /\ Guarded(ListOpen("studio",
                  Request(Null, Null, NoCursor, MinLimit, s), rl), s, rl)
            /\ Guarded(ListFetchNextPage(rl), trav.req.clerk, rl)]_vars

\* a registered user's removal of their video was refused by the rate
\* limiter while the video, its comment, a reaction, a view and a
\* subscription were stored
C21_Witness ==
  /\ resp = Reply("videos.remove", "TOO_MANY_REQUESTS")
  /\ 1 \in LiveVideos(videoTable)
  /\ 1 \in LiveComments(commentsTable)
  /\ videoReactionTable # {}
  /\ videoViewsTable # {}
  /\ subscriptionTable # {}

\* ---------------------------------------------------------------------
\* the caller wrote the comment / uploaded the video
OwnsComment(s, id) == commentsTable[id].st = "live" /\ commentsTable[id].userId = s

OwnsVideo(s, id) == videoTable[id].st = "live" /\ videoTable[id].uploaderId = s

\* a call that someone else than the owner made, or for an id that is not
\* stored, failed with NOT_FOUND and changed nothing
OwnerOnly(call, owns) ==
  call /\ ~owns =>
    /\ resp'.code = "NOT_FOUND"
    /\ UNCHANGED <<videoTable, commentsTable, otherTables>>

\* C22: comments.remove, videos.update, videos.remove and
\* videos.restoreThumbnail, called by a signed-in user who is not the owner of
\* the row or for an id that is not stored, fail with NOT_FOUND and leave
\* every row, the files at UploadThing and the assets at Mux as they were; so
\* the rows and the uploads of a video or comment change only in a call of
\* the owner.
C22_OwnerOnly ==
  [][\A s \in Users, id \in 1..2 :
       /\ resp'.op = "comments.remove" =>
            OwnerOnly(CommentsRemove(s, TRUE, id), OwnsComment(s, id))
       /\ resp'.op = "videos.update" =>
            OwnerOnly(VideosUpdate(s, TRUE, id, Omitted, "private"), OwnsVideo(s, id))
       /\ resp'.op = "videos.remove" =>
            OwnerOnly(VideosRemove(s, TRUE, id), OwnsVideo(s, id))
       /\ resp'.op = "videos.restoreThumbnail" =>
            \A deleteOk, uploadOk \in BOOLEAN :
              OwnerOnly(VideosRestoreThumbnail(s, TRUE, id, deleteOk, uploadOk),
                        OwnsVideo(s, id))]_vars

\* someone else's restoreThumbnail was refused while the video had its
\* thumbnail file and its asset
C22_Witness ==
  /\ resp = Reply("videos.restoreThumbnail", "NOT_FOUND")
  /\ 1 \in LiveVideos(videoTable)
  /\ videoTableMux[1].thumbnailKey \in utapi.files
  /\ muxAssets[1] = "stored"
  /\ videoTableMux[1].muxAssetId = 1

\* ---------------------------------------------------------------------
\* the events that carry the status of an asset to its video
StatusEvents ==
  {payload \in MuxPayloads \cup ReadyPayloads :
     payload.type \in {"video.asset.created", "video.asset.ready",
                       "video.asset.errored"}}

\* C23: a video.asset.created, video.asset.ready or video.asset.errored event
\* that the webhook handler processed (answered with 200) leaves the status
\* it carries in muxStatus of the video of its upload_id, whatever the
\* status was before, and muxStatus of a video changes in no other step: so
\* after the events of an upload, in any order, muxStatus is the status of
\* the event that was processed last.
C23_LastWriteWins ==
  [][/\ resp' = Reply("webhook", "200") =>
          \A payload \in StatusEvents :
            MuxWebhook(TRUE, "good", payload, TRUE, TRUE) =>
              \A v \in WhereUploadId(payload.upload_id) :
                videoTableMux'[v].muxStatus = payload.status
     /\ \A v \in LiveVideos(videoTable) \cap LiveVideos(videoTable') :
          videoTableMux'[v].muxStatus # videoTableMux[v].muxStatus =>
            resp' = Reply("webhook", "200")]_vars

\* an event with the status preparing was processed after the video was
\* ready
C23_Witness ==
  /\ resp = Reply("webhook", "200")
  /\ 1 \in LiveVideos(videoTable)
  /\ videoTableMux[1].muxPlaybackId # Null
  /\ videoTableMux[1].muxStatus = "preparing"

\* ---------------------------------------------------------------------
\* what a request that does not pass the signature check is answered with
Rejected(secret, signature) ==
  IF ~secret THEN "500"
  ELSE IF signature = "none" THEN "401"
  ELSE IF signature = "bad" THEN "thrown"
  ELSE "passed"

\* the event lacks the id that its case of the handler looks the row up by
LacksId(payload) ==
  \/ /\ payload.type \in {"video.asset.created", "video.asset.ready",
                          "video.asset.errored", "video.asset.deleted"}
     /\ payload.upload_id = Null
  \/ payload.type = "video.asset.track.ready" /\ payload.asset_id = Null

Signatures == {"none", "bad", "good"}

Call(secret, signature, payload) ==
  [secret |-> secret, signature |-> signature, payload |-> payload]

\* the requests that do not pass the signature check
RejectedCalls ==
  {Call(secret, signature, payload) :
     secret \in BOOLEAN, signature \in {"none", "bad"}, payload \in AnyPayloads}
  \cup {Call(FALSE, "good", payload) : payload \in MuxPayloads \cup ReadyPayloads}

\* the events of Mux that lack their id
LackingCalls ==
  {Call(TRUE, "good", payload) :
     payload \in {p \in MuxPayloads \cup ReadyPayloads : LacksId(p)}}

\* C25: a request to the Mux webhook for which no signing secret is
\* configured is answered with 500, one without mux-signature header with
\* 401, one whose signature does not verify is aborted, and an event that
\* lacks its upload_id (asset_id for video.asset.track.ready) is answered
\* with 400; in all these cases no row of any table changes.
C25_SignatureGuard ==
  [][resp'.op = "webhook" /\ resp'.code # "200" =>
       /\ \A c \in RejectedCalls :
            MuxWebhook(c.secret, c.signature, c.payload, TRUE, TRUE) =>
              /\ resp'.code = Rejected(c.secret, c.signature)
              /\ UNCHANGED <<videoTable, commentsTable, videoTableMux,
                             videoReactionTable, commentReactionTable,
                             videoViewsTable, subscriptionTable>>
       /\ \A c \in LackingCalls :
            MuxWebhook(c.secret, c.signature, c.payload, TRUE, TRUE) =>
              /\ resp'.code = "400"
              /\ UNCHANGED <<videoTable, commentsTable, videoTableMux,
                             videoReactionTable, commentReactionTable,
                             videoViewsTable, subscriptionTable>>]_vars

\* ---------------------------------------------------------------------
\* the step in which the answer to the mutation of c is handled, and the one
\* in which the server ran its call
AnswerHandled(c) ==
  queryClient.ctx[c].st = "answered" /\ queryClient'.ctx[c].st = "idle"

ServerRan(c) ==
  queryClient.ctx[c].st = "pending" /\ queryClient'.ctx[c].st = "answered"

\* C24: when the like or dislike mutation of a comment item fails, the cached
\* pages of the comments are again the snapshot that onMutate took (every
\* item with its viewerReaction, likeCount and dislikeCount of before the
\* click) and the cached replies are untouched; and when the server runs the
\* call with success on the state that the item showed at the click, the
\* item that the cache shows since the click is the item the server then
\* returns.
C24_OptimisticRollback ==
  [][\A c \in CommentIds :
       /\ AnswerHandled(c) /\ queryClient.ctx[c].code # "OK" =>
            /\ queryClient'.top = queryClient.ctx[c].previousData
            /\ queryClient'.replies = queryClient.replies
       /\ /\ ServerRan(c)
          /\ resp'.code = "OK"
          /\ ViewerItem(Writer, c) = queryClient.ctx[c].before
          => queryClient.ctx[c].applied = ViewerItem(Writer, c)']_vars

\* ---------------------------------------------------------------------
\* Two calls of one user for one target that start when the user has no
\* reaction to it: the other call stored the row other, and then the call of
\* procedure type, whose select ran before that, wrote.  The reactions that
\* the two serial orders end with:
Serial(type, other) ==
  {Toggled(other, Toggled(type, "none")), Toggled(type, Toggled(other, "none"))}

\* the step is the write of such a call, and what it leaves is what one of
\* the serial orders leaves
Linearized(call, table, type, s, id) ==
  call => Reaction(table', s, id) \in Serial(type, Reaction(table, s, id))

\* C26: two overlapping like / dislike calls of one user for one video or
\* comment, in every interleaving of their selects and writes, leave the
\* reaction that one of the two serial orders of the calls leaves.
C26_Linearizable ==
  [][\A s \in Users :
       /\ resp'.op = "videos.like" =>
            Linearized(VideosLike(s, TRUE, 1, TRUE), videoReactionTable, "like", s, 1)
       /\ resp'.op = "videos.dislike" =>
            Linearized(VideosDislike(s, TRUE, 1, TRUE), videoReactionTable,
                       "dislike", s, 1)
       /\ resp'.op = "comments.like" =>
            Linearized(CommentsLike(s, TRUE, 1, TRUE), commentReactionTable,
                       "like", s, 1)
       /\ resp'.op = "comments.dislike" =>
            Linearized(CommentsDislike(s, TRUE, 1, TRUE), commentReactionTable,
                       "dislike", s, 1)]_vars

\* ---------------------------------------------------------------------
\* the comments that a traversal of getMany({videoId, parentId}) to its end
\* has to return
RepliesListed(videoId, parentId) ==
  CommentsFilter(commentsTable, Request(videoId, parentId, NoCursor, Omitted, NoSession))

\* C27: every reply is a comment on the video of its parent, and so the
\* replyCount that comments.getMany reports of a top-level comment is the
\* number of comments that the list of its replies, getMany({videoId of the
\* comment, parentId: its id}), holds.
C27_ReplyCount ==
  \A c \in LiveComments(commentsTable) :
    IF commentsTable[c].parentId # Null
    THEN commentsTable[commentsTable[c].parentId].videoId = commentsTable[c].videoId
    ELSE ReplyCount(commentsTable, c)
           = Cardinality(RepliesListed(commentsTable[c].videoId, c))

\* ---------------------------------------------------------------------
\* the stored files of the thumbnails that the video rows name
ThumbnailStored(mux, ut) ==
  \A v \in LiveVideos(videoTable) :
    mux[v].thumbnailKey # Null => mux[v].thumbnailKey \in ut.files

\* C28: a call of videos.restoreThumbnail that fails (NOT_FOUND, BAD_REQUEST
\* or INTERNAL_SERVER_ERROR) leaves the video rows and the stored files as
\* they were, so that a thumbnailKey whose file was stored before the call
\* names a stored file after it.
C28_RestoreUnchangedOnError ==
  [][/\ resp'.op = "videos.restoreThumbnail"
     /\ resp'.code \in {"NOT_FOUND", "BAD_REQUEST", "INTERNAL_SERVER_ERROR"}
     /\ \E s \in Users, id \in 1..2, deleteOk, uploadOk \in BOOLEAN :
          VideosRestoreThumbnail(s, TRUE, id, deleteOk, uploadOk)
     => /\ UNCHANGED <<videoTable, videoTableMux, utapi>>
        /\ ThumbnailStored(videoTableMux, utapi)
             => ThumbnailStored(videoTableMux', utapi')]_vars

====
